---- MODULE Spec2Model ----
(***************************************************************************)
(* State-machine model of the gitlab-ai-assistant full workflow            *)
(* (src/src/commands/fullWorkflow.ts, fullWorkflowCommand) together with   *)
(* the validators of src/src/utils/gitCheckParser.ts and the git / GitLab  *)
(* calls it issues.  One action per awaited step of the command: the       *)
(* synchronous code between two awaits belongs to the action of the await  *)
(* that precedes it; a cancellation check belongs to the action of the     *)
(* call that follows it.                                                   *)
(***************************************************************************)
EXTENDS Integers, Sequences, FiniteSets, TLC

VARIABLES
  pc,              \* position of the command (label of the next awaited step)
  outcome,         \* "running" or the way the run ended
  head,            \* branch checked out in the working copy
  gitCheckRules,   \* result of parseGitCheckRules
  currentBranch,   \* const currentBranch (line 57)
  branchToUse,     \* let branchToUse (line 58)
  ticketNumber,    \* let ticketNumber (line 61)
  commitMessage,   \* const commitMessage (line 123), a sequence of lines
  cancelRequested, \* token.isCancellationRequested
  mr,              \* let mr (line 184)
  changes,         \* let changes (line 247)
  retryCount,      \* let retryCount (line 250)
  review,          \* const review (line 270)
  nextComment,     \* loop position in topComments (line 303)
  log,             \* history: every external operation issued, in order
  inline,          \* history: what happened to each selected inline comment
  ciFile,          \* the .gitlab-ci.yml a call of parseGitCheckRules reads
  parsePc,         \* "call" before that call, "returned" after it
  parseResult,     \* what that call gave its caller
  answer,          \* the answer of the LLM a generator is called with
  normPc,          \* "call", "returned", then "again" after a second pass
  normalized,      \* what the generator returned
  renormalized,    \* what it returned when applied to that
  selectorArgs,    \* the arguments and the LLM answer of selectTargetBranch
  selectorPc,      \* "call" before that call, then how it was made
  selectorResult,  \* what that call returned
  targetBranch,    \* let targetBranch (pushAndCreateMR.ts line 119)
  config,          \* the settings ConfigManager.getConfig reads
  runs,            \* concurrent runs of the full workflow: where each stands
  openMRs          \* the open merge requests GitLab has for their branch

\* the state of a command run
commandVars == <<pc, outcome, head, gitCheckRules, currentBranch, branchToUse,
                 ticketNumber, commitMessage, cancelRequested, mr,
                 changes, retryCount, review, nextComment, log, inline>>

\* the state of a call of the rule extractor on its own
extractorVars == <<ciFile, parsePc, parseResult>>

\* the state of a call of a generator of llmService.ts on its own
normalizerVars == <<answer, normPc, normalized, renormalized>>

\* the state of a call of selectTargetBranch on its own
selectorVars == <<selectorArgs, selectorPc, selectorResult>>

\* the state of the calls and runs modelled after the normalizer
raceVars == <<runs, openMRs>>

laterVars == <<selectorVars, targetBranch, config, raceVars>>

vars == <<commandVars, extractorVars, normalizerVars, laterVars>>

None == "undefined"

(***************************************************************************)
(* Bounds of the model                                                     *)
(***************************************************************************)
\* longest list of review comments the LLM answers with
MaxComments == 6
\* most lines of a .gitlab-ci.yml
MaxLines == 3
\* the most local branches a repository has
MaxBranches == 3
\* concurrent runs of the full workflow on one branch
MaxRuns == 2

(***************************************************************************)
(* Program constants                                                       *)
(***************************************************************************)
\* const maxRetries = 5 (fullWorkflow.ts line 251)
maxRetries == 5
\* .slice(0, 5) (fullWorkflow.ts line 301)
TopCommentsLimit == 5

\* export const PROTECTED_BRANCHES (gitCheckParser.ts line 16)
PROTECTED_BRANCHES == <<"main", "master", "dev", "develop", "development">>

(***************************************************************************)
(* Strings.  Branch names are drawn from a finite universe; toLowerCase is *)
(* tabulated on it.                                                        *)
(***************************************************************************)
\* (the names "main", "Master", "Develop", "feature/login",
\* "feature/ABC-12-login", "login"; the ticket input "abc-12")
toLowerCase(s) ==
  CASE s = "Master" -> "master"
    [] s = "Develop" -> "develop"
    [] s = "feature/ABC-12-login" -> "feature/abc-12-login"
    [] OTHER -> s

toUpperCase(s) ==
  CASE s = "abc-12" -> "ABC-12"
    [] OTHER -> s

Range(f) == {f[i] : i \in DOMAIN f}

\* PROTECTED_BRANCHES.includes(branchName.toLowerCase()) ignores the case
isProtectedBranch_CaseSensitive(branchName) ==
  branchName \in Range(PROTECTED_BRANCHES)

isProtectedBranch(branchName) ==
  toLowerCase(branchName) \in Range(PROTECTED_BRANCHES)

(***************************************************************************)
(* Regular expressions.  A compiled RegExp is modelled by its source       *)
(* followed by its flags; its test() is tabulated on the finite universes  *)
(* of branch names and of commit subject lines.                            *)
(***************************************************************************)
BranchTicketPattern == "^(feature|bugfix|hotfix)/[A-Z]+-[0-9]+-.*$"
CommitTicketPattern == "^(feat|fix)[(][A-Z]+-[0-9]+[)]: .+$"
BranchScriptPattern == "^(feature|fix)-[a-z0-9-]+$"
CommitKeyPattern == "^(feat|fix): .+$"
CommitScriptPattern == "^(feat|fix)!?: .+$"
\* patterns that new RegExp rejects (unterminated group)
UnterminatedBranchPattern == "^(feature/.*"
UnterminatedCommitPattern == "^(feat|fix: .+$"
\* gitCheckParser.ts line 112 and line 163
ConventionalBranchPattern ==
  "^(feature|feat|fix|bugfix|hotfix|chore|docs|refactor|test)/[a-z0-9-]+$"
ConventionalCommitPattern ==
  "^(feat|fix|docs|style|refactor|perf|test|chore|ci|build)(\\([a-z-]+\\))?!?:\\s.+$"

\* new RegExp(pattern) that never throws: every pattern compiles
NewRegExp_Unchecked(pattern, flags) == pattern \o flags

\* new RegExp(pattern, flags) inside try { } catch { }: the compiled regex,
\* or undefined when the constructor throws
NewRegExp(pattern, flags) ==
  IF pattern \in {UnterminatedBranchPattern, UnterminatedCommitPattern}
  THEN None
  ELSE pattern \o flags

\* RegExp.prototype.test
RegExpTest(regex, s) ==
  CASE regex = BranchTicketPattern -> s = "feature/ABC-12-login"
    [] regex = CommitTicketPattern -> s = "feat(ABC-12): add login"
    [] regex = ConventionalBranchPattern \o "i" ->
         s \in {"feature/login", "feature/ABC-12-login"}
    [] OTHER -> FALSE

\* /\[A-Z\].*\[0-9\]/.test(pattern) || pattern.includes('ticket')
\* (gitCheckParser.ts lines 48-49 and 58-59)
PatternRequiresTicket(pattern) ==
  pattern \in {BranchTicketPattern, CommitTicketPattern}

(***************************************************************************)
(* The text of .gitlab-ci.yml: a sequence of lines (joined by newlines).   *)
(* The regular expressions of the extractor span no line break on these    *)
(* lines ('.' matches none, and every quoted or slash-delimited pattern    *)
(* closes on its line), so a match of the text is the match of its first   *)
(* line that has one.  What each expression captures on each line is       *)
(* tabulated below.                                                        *)
(***************************************************************************)
MarkerLine == "stages: [git-check]"
MarkerLine2 == "git_check:"
PlainLine == "  script: echo lint"
BranchKeyLine == "  BRANCH_PATTERN: '^(feature|bugfix|hotfix)/[A-Z]+-[0-9]+-.*$'"
BranchScriptLine == "  - [[ $BRANCH =~ /^(feature|fix)-[a-z0-9-]+$/ ]]"
BadBranchKeyLine == "  BRANCH_REGEX: '^(feature/.*'"
BranchTypesLine == "  allowed_branches: 'w|s'"
GrepLine == "  - grep -qE '^(feat|fix)[(][A-Z]+-[0-9]+[)]: .+$' msg"
BadGrepLine == "  - grep -E '^(feat|fix: .+$' msg"
CommitKeyLine == "  COMMIT_REGEX: '^(feat|fix): .+$'"
CommitScriptLine == "  - [[ $COMMIT_MESSAGE =~ /^(feat|fix)!?: .+$/ ]]"
KeywordLine == "  # feature and fix work only"
ConventionalLine == "  # conventional naming"
ConventionalCommitLine == "  # conventional-commits"

CILines ==
  {MarkerLine, MarkerLine2, PlainLine, BranchKeyLine, BranchScriptLine,
   BadBranchKeyLine, BranchTypesLine, GrepLine, BadGrepLine, CommitKeyLine,
   CommitScriptLine, KeywordLine, ConventionalLine, ConventionalCommitLine}

\* String.prototype.includes on one line, for the needles the extractor uses
LineIncludes(line, needle) ==
  CASE needle = "git-check" -> line = MarkerLine
    [] needle = "git_check" -> line = MarkerLine2
    [] needle = "conventional" ->
         line \in {ConventionalLine, ConventionalCommitLine}
    [] needle = "conventional-commit" -> line = ConventionalCommitLine
    [] needle = "conventionalcommit" -> FALSE
    [] needle = "feat" ->
         line \in {BranchKeyLine, BranchScriptLine, BadBranchKeyLine, GrepLine,
                   BadGrepLine, CommitKeyLine, CommitScriptLine, KeywordLine}
    [] needle = "fix" ->
         line \in {BranchKeyLine, BranchScriptLine, GrepLine, BadGrepLine,
                   CommitKeyLine, CommitScriptLine, KeywordLine}
    [] OTHER -> FALSE

\* content.includes(needle), for a needle without a line break
includes(content, needle) ==
  \E i \in DOMAIN content : LineIncludes(content[i], needle)

\* group 1 of /branch.*?(?:pattern|regex|match).*?['"]([^'"]+)['"]/i (line 74)
BranchKeyCapture(line) ==
  CASE line = BranchKeyLine -> BranchTicketPattern
    [] line = BadBranchKeyLine -> UnterminatedBranchPattern
    [] OTHER -> None

\* group 1 of /branch.*?=~.*?\/([^/]+)\//i (line 85)
BranchScriptCapture(line) ==
  CASE line = BranchScriptLine -> BranchScriptPattern
    [] OTHER -> None

\* group 1 of line 96, split at [,|\s]+ (line 98); the character class of the
\* group holds only the characters \ w , s and |
BranchTypesCapture(line) ==
  CASE line = BranchTypesLine -> "w|s"
    [] OTHER -> None

\* the matches of /(feature|bugfix|hotfix|fix|feat|chore|docs|refactor)/gi on
\* one line, in lower case (lines 102-104)
ConventionalWords(line) ==
  CASE line = BranchKeyLine -> {"feature", "bugfix", "hotfix"}
    [] line = BranchScriptLine -> {"feature", "fix"}
    [] line = BadBranchKeyLine -> {"feature"}
    [] line \in {GrepLine, BadGrepLine, CommitKeyLine, CommitScriptLine} ->
         {"feat", "fix"}
    [] line = KeywordLine -> {"feature", "fix"}
    [] OTHER -> {}

\* group 1 of /grep\s+-[a-zA-Z]*E[a-zA-Z]*\s+["']([^"']+)["']/ (line 124)
GrepCapture(line) ==
  CASE line = GrepLine -> CommitTicketPattern
    [] line = BadGrepLine -> UnterminatedCommitPattern
    [] OTHER -> None

\* group 1 of /commit.*?(?:pattern|regex|match).*?['"]([^'"]+)['"]/i (line 136)
CommitKeyCapture(line) ==
  CASE line = CommitKeyLine -> CommitKeyPattern
    [] OTHER -> None

\* group 1 of /commit.*?message.*?=~.*?\/([^/]+)\//i (line 149)
CommitScriptCapture(line) ==
  CASE line = CommitScriptLine -> CommitScriptPattern
    [] OTHER -> None

\* content.match(regex)[1] for a regex that captures Capture(line) on a line:
\* the capture on the first line that has one, or undefined
FirstCapture(content, Capture(_)) ==
  LET hits == {i \in DOMAIN content : Capture(content[i]) # None}
  IN IF hits = {} THEN None
     ELSE Capture(content[CHOOSE i \in hits : \A j \in hits : i <= j])

(***************************************************************************)
(* extractBranchNamePatterns (gitCheckParser.ts lines 69-118).  types is   *)
(* kept as a set, hasTypes tells whether result.types was assigned.        *)
(***************************************************************************)
\* the set of types of BranchTypesCapture's list
SplitTypes(list) == IF list = "w|s" THEN {"w", "s"} ELSE {}

\* lines 108-110: whether the default pattern of lines 111-113 applies
ConventionalBranchDefault(content, pattern, hasTypes) ==
  /\ pattern = None /\ ~hasTypes
  /\ \/ includes(content, "conventional")
     \/ includes(content, "feat") \/ includes(content, "fix")

extractBranchNamePatterns(content) ==
  LET regexMatch == FirstCapture(content, BranchKeyCapture)
      scriptMatch == FirstCapture(content, BranchScriptCapture)
      typesMatch == FirstCapture(content, BranchTypesCapture)
      conventionalMatch ==
        UNION {ConventionalWords(content[i]) : i \in DOMAIN content}
      \* lines 74-93
      pattern == IF regexMatch # None THEN regexMatch ELSE scriptMatch
      regex == IF pattern # None THEN NewRegExp(pattern, "") ELSE None
      \* lines 96-105
      hasTypes == typesMatch # None \/ conventionalMatch # {}
      types == IF typesMatch # None THEN SplitTypes(typesMatch)
               ELSE conventionalMatch
  IN IF ConventionalBranchDefault(content, pattern, hasTypes)
     THEN [pattern |-> ConventionalBranchPattern,
           regex |-> NewRegExp(ConventionalBranchPattern, "i"),
           hasTypes |-> TRUE,
           types |-> {"feature", "feat", "fix", "bugfix", "hotfix", "chore",
                      "docs", "refactor", "test"}]
     ELSE [pattern |-> pattern, regex |-> regex,
           hasTypes |-> hasTypes, types |-> types]

(***************************************************************************)
(* extractCommitMessagePatterns (gitCheckParser.ts lines 120-172)          *)
(***************************************************************************)
\* lines 160-166 with a default applied whenever the stage exists
ConventionalCommitDefault_Always(content) == TRUE

\* line 162
ConventionalCommitDefault(content) ==
  includes(content, "conventional-commit")
    \/ includes(content, "conventionalcommit")

\* lines 120-170 with the explicit pattern key looked at before the grep
\* argument
extractCommitMessagePatterns_KeyFirst(content) ==
  LET grepMatch == FirstCapture(content, GrepCapture)
      conventionalMatch == FirstCapture(content, CommitKeyCapture)
      scriptMatch == FirstCapture(content, CommitScriptCapture)
      pattern == IF conventionalMatch # None THEN conventionalMatch
                 ELSE IF grepMatch # None THEN grepMatch
                 ELSE scriptMatch
  IN IF pattern # None
     THEN [pattern |-> pattern, regex |-> NewRegExp(pattern, "")]
     ELSE IF ConventionalCommitDefault(content)
     THEN [pattern |-> ConventionalCommitPattern,
           regex |-> NewRegExp(ConventionalCommitPattern, "i")]
     ELSE [pattern |-> None, regex |-> None]

extractCommitMessagePatterns(content) ==
  LET grepMatch == FirstCapture(content, GrepCapture)
      conventionalMatch == FirstCapture(content, CommitKeyCapture)
      scriptMatch == FirstCapture(content, CommitScriptCapture)
      \* lines 124-158: the first strategy that finds a pattern
      pattern == IF grepMatch # None THEN grepMatch
                 ELSE IF conventionalMatch # None THEN conventionalMatch
                 ELSE scriptMatch
  IN IF pattern # None
     THEN [pattern |-> pattern, regex |-> NewRegExp(pattern, "")]
     ELSE IF ConventionalCommitDefault(content)
     THEN [pattern |-> ConventionalCommitPattern,
           regex |-> NewRegExp(ConventionalCommitPattern, "i")]
     ELSE [pattern |-> None, regex |-> None]

(***************************************************************************)
(* GitCheckRules (gitCheckParser.ts lines 4-13) and parseGitCheckRules     *)
(* (lines 25-67).  An optional field that was never assigned holds         *)
(* undefined (a flag: FALSE, the types: the empty set); assigned lists the *)
(* fields the function assigned.                                           *)
(***************************************************************************)
\* line 26-28: const rules = { hasGitCheck: false }
NoRules ==
  [hasGitCheck |-> FALSE,
   branchNamePattern |-> None, branchNameRegex |-> None,
   commitMessagePattern |-> None, commitMessageRegex |-> None,
   allowedBranchTypes |-> {},
   requiresTicketNumber |-> FALSE, commitRequiresTicketNumber |-> FALSE,
   assigned |-> {"hasGitCheck"}]

\* .gitlab-ci.yml as fs.readFile finds it: unreadable (missing), or its text
NoCIFile == [readable |-> FALSE, content |-> <<>>]
CIFile(content) == [readable |-> TRUE, content |-> content]

\* line 35 without the early return of line 36
HasGitCheckStage_Ignored(content) == TRUE

\* line 35
HasGitCheckStage(content) ==
  includes(content, "git-check") \/ includes(content, "git_check")

\* what the caller gets when fs.readFile throws, without the catch of line 63
ReadFailed_Uncaught == [threw |-> TRUE, rules |-> NoRules]

\* lines 63-66: the catch returns the rules as they stand
ReadFailed == [threw |-> FALSE, rules |-> NoRules]

\* lines 39-62
RulesOfStage(content) ==
  LET branchPatterns == extractBranchNamePatterns(content)
      commitPatterns == extractCommitMessagePatterns(content)
      hasBranch == branchPatterns.pattern # None
      hasCommit == commitPatterns.pattern # None
  IN [hasGitCheck |-> TRUE,
      branchNamePattern |-> branchPatterns.pattern,
      branchNameRegex |-> branchPatterns.regex,
      commitMessagePattern |-> commitPatterns.pattern,
      commitMessageRegex |-> commitPatterns.regex,
      allowedBranchTypes |-> IF hasBranch THEN branchPatterns.types ELSE {},
      requiresTicketNumber |->
        hasBranch /\ PatternRequiresTicket(branchPatterns.pattern),
      commitRequiresTicketNumber |->
        hasCommit /\ PatternRequiresTicket(commitPatterns.pattern),
      assigned |->
        {"hasGitCheck"}
          \cup (IF hasBranch
                THEN {"branchNamePattern", "requiresTicketNumber"}
                       \cup (IF branchPatterns.regex # None
                             THEN {"branchNameRegex"} ELSE {})
                       \cup (IF branchPatterns.hasTypes
                             THEN {"allowedBranchTypes"} ELSE {})
                ELSE {})
          \cup (IF hasCommit
                THEN {"commitMessagePattern", "commitRequiresTicketNumber"}
                       \cup (IF commitPatterns.regex # None
                             THEN {"commitMessageRegex"} ELSE {})
                ELSE {})]

\* parseGitCheckRules as its caller sees it: whether it threw, and the rules
ParseResult(file) ==
  IF ~file.readable THEN ReadFailed
  ELSE IF ~HasGitCheckStage(file.content)
       THEN [threw |-> FALSE, rules |-> NoRules]
       ELSE [threw |-> FALSE, rules |-> RulesOfStage(file.content)]

parseGitCheckRules(file) == ParseResult(file).rules

\* the .gitlab-ci.yml of the workspaces the commands run in: none, and one
\* with a git-check stage, a branch pattern and a commit pattern
TicketCIFile == CIFile(<<MarkerLine, BranchKeyLine, GrepLine>>)
WorkspaceCIFiles == {NoCIFile, TicketCIFile}

TicketRules == parseGitCheckRules(TicketCIFile)

\* validateBranchName(...).valid without the protected-branch test
validateBranchName_NoProtectedTest(branchName, rules) ==
  IF rules.branchNameRegex # None
  THEN RegExpTest(rules.branchNameRegex, branchName)
  ELSE TRUE

\* validateBranchName(...).valid when the branch regex is not consulted
validateBranchName_NoRegexTest(branchName, rules) ==
  ~isProtectedBranch(branchName)

\* validateBranchName(...).valid
validateBranchName(branchName, rules) ==
  IF isProtectedBranch(branchName) THEN FALSE
  ELSE IF rules.branchNameRegex # None
       THEN RegExpTest(rules.branchNameRegex, branchName)
       ELSE TRUE

\* validateCommitMessage(...).valid when any line may match
validateCommitMessage_AnyLine(message, rules) ==
  IF rules.commitMessageRegex # None
  THEN \E i \in DOMAIN message : RegExpTest(rules.commitMessageRegex, message[i])
  ELSE TRUE

\* validateCommitMessage(...).valid: the subject line message.split('\n')[0]
validateCommitMessage(message, rules) ==
  IF rules.commitMessageRegex # None
  THEN RegExpTest(rules.commitMessageRegex, message[1])
  ELSE TRUE

(***************************************************************************)
(* Texts of the LLM.  An answer of the LLM and what the clean-up code of   *)
(* llmService.ts makes of it are sequences of characters (one-character    *)
(* strings), so that the regular expressions of that code are computed     *)
(* character by character.                                                 *)
(***************************************************************************)
LowerLetters ==
  <<"a", "b", "c", "d", "e", "f", "g", "h", "i", "j", "k", "l", "m">>
    \o <<"n", "o", "p", "q", "r", "s", "t", "u", "v", "w", "x", "y", "z">>
UpperLetters ==
  <<"A", "B", "C", "D", "E", "F", "G", "H", "I", "J", "K", "L", "M">>
    \o <<"N", "O", "P", "Q", "R", "S", "T", "U", "V", "W", "X", "Y", "Z">>

IsLower(c) == c \in Range(LowerLetters)
IsUpper(c) == c \in Range(UpperLetters)
IsLetter(c) == IsLower(c) \/ IsUpper(c)
IsDigit(c) == c \in {"0", "1", "2", "3", "4", "5", "6", "7", "8", "9"}
\* \s
IsSpace(c) == c \in {" ", "\n", "\t", "\r"}
\* ["']
IsQuote(c) == c \in {"\"", "'"}
\* [a-z0-9-]
IsNameChar(c) == IsLower(c) \/ IsDigit(c) \/ c = "-"

LetterIndex(letters, c) == CHOOSE i \in DOMAIN letters : letters[i] = c

\* String.prototype.toLowerCase and toUpperCase on a text
lower(s) ==
  [i \in DOMAIN s |->
     IF IsUpper(s[i]) THEN LowerLetters[LetterIndex(UpperLetters, s[i])]
     ELSE s[i]]
upper(s) ==
  [i \in DOMAIN s |->
     IF IsLower(s[i]) THEN UpperLetters[LetterIndex(LowerLetters, s[i])]
     ELSE s[i]]

Min(S) == CHOOSE x \in S : \A y \in S : x <= y
Max(S) == CHOOSE x \in S : \A y \in S : x >= y

\* the text p stands in s at position i
StartsAt(s, i, p) ==
  /\ i >= 1 /\ i + Len(p) - 1 <= Len(s)
  /\ \A k \in DOMAIN p : s[i + k - 1] = p[k]

\* the first position from i on where p stands in s, or 0
FirstAt(s, i, p) ==
  LET hits == {j \in i..Len(s) : StartsAt(s, j, p)}
  IN IF hits = {} THEN 0 ELSE Min(hits)

\* the first position from i on that holds the character c, or 0
FirstChar(s, i, c) == FirstAt(s, i, <<c>>)

\* the last position of the run of Class characters that starts at i
\* (i - 1 when s[i] is not of the class)
RunEnd(s, i, Class(_)) ==
  LET stops == {j \in i..Len(s) : ~Class(s[j])}
  IN IF stops = {} THEN Len(s) ELSE Min(stops) - 1

\* String.prototype.trim
trim(s) ==
  LET keep == {i \in DOMAIN s : ~IsSpace(s[i])}
  IN IF keep = {} THEN <<>> ELSE SubSeq(s, Min(keep), Max(keep))

\* s.replace(regex, replacement) for a regex with the g flag: MatchEnd(s, i)
\* is the last position of the match that starts at i (less than i when there
\* is none), Replacement(s, i, e) what the match s[i..e] is replaced by
replaceAll(s, MatchEnd(_, _), Replacement(_, _, _)) ==
  LET rest[i \in 1..(Len(s) + 1)] ==
        IF i > Len(s) THEN <<>>
        ELSE LET e == MatchEnd(s, i)
             IN IF e >= i THEN Replacement(s, i, e) \o rest[e + 1]
                ELSE <<s[i]>> \o rest[i + 1]
  IN rest[1]

Removed(s, i, e) == <<>>
Hyphen(s, i, e) == <<"-">>
Group1(s, i, e) == SubSeq(s, i + 1, e - 1)

\* s.split(c): the pieces of s between the occurrences of the character c
split(s, c) ==
  LET pieces[i \in 1..(Len(s) + 1)] ==
        LET k == FirstChar(s, i, c)
        IN IF i > Len(s) THEN <<<<>>>>
           ELSE IF k = 0 THEN <<SubSeq(s, i, Len(s))>>
           ELSE <<SubSeq(s, i, k - 1)>> \o pieces[k + 1]
  IN pieces[1]

(***************************************************************************)
(* The clean-up both generators start with (llmService.ts lines 171-184    *)
(* and 260-273)                                                            *)
(***************************************************************************)
ThinkOpen == <<"<", "t", "h", "i", "n", "k", ">">>
ThinkClose == <<"<", "/", "t", "h", "i", "n", "k", ">">>
\* the character ` (U+0060), which no string of this language can hold
Backtick == "U+0060"
Fence == <<Backtick, Backtick, Backtick>>

\* /<think>[\s\S]*?<\/think>/gi
ThinkBlockEnd(s, i) ==
  IF StartsAt(lower(s), i, ThinkOpen)
  THEN LET k == FirstAt(lower(s), i + Len(ThinkOpen), ThinkClose)
       IN IF k = 0 THEN 0 ELSE k + Len(ThinkClose) - 1
  ELSE 0

\* the last position of <[^>]+> or <\/[^>]+> standing at i (after skip
\* characters), or 0
TagEnd(s, i, skip) ==
  LET close == FirstChar(s, i + skip, ">")
  IN IF close > i + skip THEN close ELSE 0

\* /<[^>]+>[\s\S]*?<\/[^>]+>/gi
TagBlockEnd(s, i) ==
  IF s[i] = "<" /\ TagEnd(s, i, 1) # 0
  THEN LET closers == {k \in (TagEnd(s, i, 1) + 1)..Len(s) :
                         StartsAt(s, k, <<"<", "/">>) /\ TagEnd(s, k, 2) # 0}
       IN IF closers = {} THEN 0 ELSE TagEnd(s, Min(closers), 2)
  ELSE 0

\* /```[\s\S]*?```/g
FenceBlockEnd(s, i) ==
  IF StartsAt(s, i, Fence)
  THEN LET k == FirstAt(s, i + Len(Fence), Fence)
       IN IF k = 0 THEN 0 ELSE k + Len(Fence) - 1
  ELSE 0

\* /`([^`]+)`/g
InlineCodeEnd(s, i) ==
  IF s[i] = Backtick /\ i < Len(s) /\ s[i + 1] # Backtick
  THEN FirstChar(s, i + 1, Backtick)
  ELSE 0

\* /^["']|["']$/g: a quote that starts the text and a quote that ends it
QuoteEnd(s, i) ==
  IF IsQuote(s[i]) /\ (i = 1 \/ i = Len(s)) THEN i ELSE 0

\* .replace(/^["']|["']$/g, '') (lines 184 and 273)
stripQuotes(s) == replaceAll(s, QuoteEnd, Removed)

\* lines 171-184 and lines 260-273
cleanUp(content) ==
  LET trimmed == trim(content)
      noThink == replaceAll(trimmed, ThinkBlockEnd, Removed)
      noTags == replaceAll(noThink, TagBlockEnd, Removed)
      noFences == replaceAll(noTags, FenceBlockEnd, Removed)
      noBackticks == replaceAll(noFences, InlineCodeEnd, Group1)
  IN stripQuotes(noBackticks)

(***************************************************************************)
(* generateBranchNameWithRules, lines 259-315: what it returns for the     *)
(* answer response.content of the LLM                                      *)
(***************************************************************************)
\* the shape <letters>/<letters>-<digits>-<rest> of the regular expressions
\* of lines 279 and 288: where its parts end, or 0 when s has not the shape
TicketShape(s) ==
  LET typeEnd == RunEnd(s, 1, IsLetter)
      keyEnd == RunEnd(s, typeEnd + 2, IsLetter)
      numberEnd == RunEnd(s, keyEnd + 2, IsDigit)
  IN IF /\ typeEnd >= 1 /\ StartsAt(s, typeEnd + 1, <<"/">>)
        /\ keyEnd >= typeEnd + 2 /\ StartsAt(s, keyEnd + 1, <<"-">>)
        /\ numberEnd >= keyEnd + 2 /\ StartsAt(s, numberEnd + 1, <<"-">>)
        /\ numberEnd + 2 <= Len(s)
     THEN [typeEnd |-> typeEnd, numberEnd |-> numberEnd]
     ELSE [typeEnd |-> 0, numberEnd |-> 0]

\* /^[a-z]+\/[A-Z]+-[0-9]+-[a-z0-9-]+$/i.test(s)
LooksLikeBranch(s) ==
  LET shape == TicketShape(s)
  IN /\ shape.typeEnd # 0
     /\ \A i \in (shape.numberEnd + 2)..Len(s) : IsNameChar(lower(s)[i])

\* /\s+/g
SpaceRunEnd(s, i) == RunEnd(s, i, IsSpace)
\* /[^a-z0-9-]/g
OtherCharEnd(s, i) == IF IsNameChar(s[i]) THEN 0 ELSE i
\* /-+/g
IsHyphen(c) == c = "-"
HyphenRunEnd(s, i) == RunEnd(s, i, IsHyphen)
\* /-$/g
LastHyphenEnd(s, i) == IF s[i] = "-" /\ i = Len(s) THEN i ELSE 0
\* /^-|-$/g
OuterHyphenEnd(s, i) == IF s[i] = "-" /\ (i = 1 \/ i = Len(s)) THEN i ELSE 0

\* .toLowerCase().replace(/[^a-z0-9-]/g, '-')
describe(s) == replaceAll(lower(s), OtherCharEnd, Hyphen)

\* rest.match(/([A-Z]+-[0-9]+)/i): where the first ticket of s starts and
\* ends, or 0
FirstTicket(s) ==
  LET starts == {i \in DOMAIN s :
                   /\ IsLetter(s[i])
                   /\ StartsAt(s, RunEnd(s, i, IsLetter) + 1, <<"-">>)
                   /\ RunEnd(s, RunEnd(s, i, IsLetter) + 2, IsDigit)
                        >= RunEnd(s, i, IsLetter) + 2}
  IN IF starts = {} THEN [from |-> 0, to |-> 0]
     ELSE [from |-> Min(starts),
           to |-> RunEnd(s, RunEnd(s, Min(starts), IsLetter) + 2, IsDigit)]

\* lines 275-281: the first line that looks like a branch name, else the last
\* line that is not blank; a text without such a line is left as it is
answerLine(s) ==
  LET lines == SelectSeq(split(trim(s), "\n"), LAMBDA l : trim(l) # <<>>)
      branchLines == {i \in DOMAIN lines : LooksLikeBranch(trim(lines[i]))}
  IN IF lines = <<>> THEN s
     ELSE IF branchLines # {} THEN lines[Min(branchLines)]
     ELSE lines[Len(lines)]

\* lines 286-310: the type in lower case, the ticket in upper case, the
\* description in lower case and hyphens
restructure(s) ==
  LET shape == TicketShape(s)
      parts == split(s, "/")
  IN IF shape.typeEnd # 0
     THEN lower(SubSeq(s, 1, shape.typeEnd)) \o <<"/">>
            \o upper(SubSeq(s, shape.typeEnd + 2, shape.numberEnd)) \o <<"-">>
            \o describe(SubSeq(s, shape.numberEnd + 2, Len(s)))
     ELSE IF Len(parts) = 2
     THEN LET rest == parts[2]
              ticketMatch == FirstTicket(rest)
          IN IF ticketMatch.from # 0
             THEN lower(parts[1]) \o <<"/">>
                    \o upper(SubSeq(rest, ticketMatch.from, ticketMatch.to))
                    \o <<"-">>
                    \o describe(replaceAll(
                         SubSeq(rest, 1, ticketMatch.from - 1)
                           \o SubSeq(rest, ticketMatch.to + 1, Len(rest)),
                         OuterHyphenEnd, Removed))
             ELSE lower(parts[1]) \o <<"/">> \o describe(rest)
     ELSE s

\* lines 259-315
generateBranchNameWithRules(content) ==
  LET line == answerLine(cleanUp(content))
      hyphenated == replaceAll(trim(line), SpaceRunEnd, Hyphen)
      single == replaceAll(restructure(hyphenated), HyphenRunEnd, Hyphen)
  IN replaceAll(single, LastHyphenEnd, Removed)

(***************************************************************************)
(* generateCommitMessageWithRules, lines 170-221: what it returns for the  *)
(* answer response.content of the LLM and the ticketNumber it was given (<<>>    *)
(* for no ticket)                                                          *)
(***************************************************************************)
\* (feat|fix|chore|docs|style|refactor|test|ci|build|perf) of lines 192, 214
ConventionalTypes ==
  {<<"f", "e", "a", "t">>,
   <<"f", "i", "x">>,
   <<"c", "h", "o", "r", "e">>,
   <<"d", "o", "c", "s">>,
   <<"s", "t", "y", "l", "e">>,
   <<"r", "e", "f", "a", "c", "t", "o", "r">>,
   <<"t", "e", "s", "t">>,
   <<"c", "i">>,
   <<"b", "u", "i", "l", "d">>,
   <<"p", "e", "r", "f">>}

NotParen(c) == c # ")"
NoLineBreak(c) == c \notin {"\n", "\r"}

\* the match of ^(type) scope :\s*(.+)$ with the i flag, where the scope
\* (\([^)]*\)) is looked for only when withScope: the ends of its groups, or
\* typeEnd = 0 when the message does not match
ConventionalMatch(message, withScope) ==
  LET typeEnd == RunEnd(message, 1, IsLetter)
      scopeEnd ==
        IF withScope /\ StartsAt(message, typeEnd + 1, <<"(">>)
             /\ StartsAt(message, RunEnd(message, typeEnd + 2, NotParen) + 1,
                         <<")", ":">>)
        THEN RunEnd(message, typeEnd + 2, NotParen) + 1
        ELSE typeEnd
      descStart == RunEnd(message, scopeEnd + 2, IsSpace) + 1
  IN IF /\ typeEnd >= 1
        /\ lower(SubSeq(message, 1, typeEnd)) \in ConventionalTypes
        /\ StartsAt(message, scopeEnd + 1, <<":">>)
        /\ descStart <= Len(message)
        /\ RunEnd(message, descStart, NoLineBreak) = Len(message)
     THEN [typeEnd |-> typeEnd, scopeEnd |-> scopeEnd, descStart |-> descStart]
     ELSE [typeEnd |-> 0, scopeEnd |-> 0, descStart |-> 0]

\* `${type}(${upperTicket}): ${description}`
WithTicketScope(message, m, ticket) ==
  lower(SubSeq(message, 1, m.typeEnd)) \o <<"(">> \o upper(ticket)
    \o <<")", ":", " ">> \o SubSeq(message, m.descStart, Len(message))

\* /^[a-z]+-[0-9]+$/i.test(s)
IsTicket(s) ==
  LET keyEnd == RunEnd(s, 1, IsLetter)
  IN /\ keyEnd >= 1 /\ StartsAt(s, keyEnd + 1, <<"-">>)
     /\ keyEnd + 2 <= Len(s)
     /\ RunEnd(s, keyEnd + 2, IsDigit) = Len(s)

\* lines 199-207 when a ticket-shaped scope is kept, in upper case
correctScope_KeepTicket(message, m, ticket) ==
  LET scopeContent == SubSeq(message, m.typeEnd + 2, m.scopeEnd - 1)
  IN IF m.scopeEnd > m.typeEnd /\ IsTicket(scopeContent)
     THEN lower(SubSeq(message, 1, m.typeEnd)) \o <<"(">> \o upper(scopeContent)
            \o <<")", ":", " ">> \o SubSeq(message, m.descStart, Len(message))
     ELSE WithTicketScope(message, m, ticket)

\* lines 194-211: a ticket-shaped scope, another scope and no scope are all
\* replaced by the ticket (a scope that is an upper-case ticket is a
\* ticket-shaped scope)
correctScope(message, m, ticket) ==
  LET scopeContent == SubSeq(message, m.typeEnd + 2, m.scopeEnd - 1)
  IN IF m.scopeEnd > m.typeEnd
     THEN IF IsTicket(scopeContent)
          THEN WithTicketScope(message, m, ticket)
          ELSE IF ~(IsTicket(scopeContent) /\ scopeContent = upper(scopeContent))
          THEN WithTicketScope(message, m, ticket)
          ELSE message
     ELSE WithTicketScope(message, m, ticket)

\* lines 188-219
postProcess(message, ticket) ==
  LET conventionalMatch == ConventionalMatch(message, TRUE)
      simpleMatch == ConventionalMatch(message, FALSE)
  IN IF ticket = <<>> THEN message
     ELSE IF conventionalMatch.typeEnd # 0
     THEN correctScope(message, conventionalMatch, ticket)
     ELSE IF simpleMatch.typeEnd # 0
     THEN WithTicketScope(message, simpleMatch, ticket)
     ELSE message

\* lines 170-221
generateCommitMessageWithRules(content, ticket) ==
  postProcess(trim(cleanUp(content)), ticket)

(***************************************************************************)
(* The environment's answers                                               *)
(***************************************************************************)
\* branches the working copy can be on when the command starts
StartBranches == {"main", "Develop", "feature/login"}

\* what the ticket input box returns: an accepted value or dismissal
TicketInputs == {"abc-12", None}

\* results of llmService.generateBranchNameWithRules
GeneratedBranchNames == {"feature/ABC-12-login", "feature/login", "login",
                         "main", "Master"}

\* results of llmService.generateCommitMessageWithRules, as lists of lines
GeneratedCommitMessages ==
  {<<"feat(ABC-12): add login">>, <<"wip", "feat(ABC-12): add login">>}

(***************************************************************************)
(* Bookkeeping shared by the actions                                       *)
(***************************************************************************)
\* a call that returned, and a call that threw
Op(name, arg) == [op |-> name, arg |-> arg, ok |-> TRUE]
OpFailed(name, arg) == [op |-> name, arg |-> arg, ok |-> FALSE]

Running == outcome = "running"

\* the command goes on to the step nextPc having issued ops
Goto(nextPc, ops) ==
  /\ pc' = nextPc
  /\ outcome' = outcome
  /\ log' = log \o ops
  /\ UNCHANGED <<extractorVars, normalizerVars, laterVars>>

\* the command returns (or its error handler ran) having issued ops
End(how, ops) ==
  /\ pc' = pc
  /\ outcome' = how
  /\ log' = log \o ops
  /\ UNCHANGED <<extractorVars, normalizerVars, laterVars>>

\* let mr; and const review before they are assigned
NoMR == [iid |-> 0, diff_refs |-> FALSE, created |-> FALSE]
NoReview == [isObject |-> FALSE, summary |-> None, comments |-> <<>>, score |-> 0]

\* the command goes to nextPc, or ends when how is not "running", without a
\* word on targetBranch and config
Move(nextPc, how, ops) ==
  /\ pc' = nextPc
  /\ outcome' = how
  /\ log' = log \o ops
  /\ UNCHANGED <<extractorVars, normalizerVars, selectorVars, raceVars>>

(***************************************************************************)
(* ConfigManager (src/src/utils/index.ts lines 15-167).  The settings are  *)
(* a record of the five fields validateConfig reads; an unset string field *)
(* is "" (getConfig, lines 18-38).                                         *)
(***************************************************************************)
\* the texts new URL accepts (isValidUrl, lines 83-90)
ValidUrls ==
  {"https://gitlab.example.com", "http://localhost:11434",
   "https://llm.example.com/v1"}

isValidUrl(string) == string \in ValidUrls

GitlabUrls == {"", "gitlab.example.com", "https://gitlab.example.com"}
GitlabTokens == {"", "glpat-1"}
LLMProviders == {"openai", "custom", "ollama"}
LLMApiKeys == {"", "sk-1"}
LLMApiUrls == {"", "localhost", "http://localhost:11434"}

Configs ==
  [gitlabUrl : GitlabUrls, gitlabToken : GitlabTokens,
   llmProvider : LLMProviders, llmApiKey : LLMApiKeys, llmApiUrl : LLMApiUrls]

\* the settings of a fresh installation (the defaults of lines 22-26)
UnsetConfig ==
  [gitlabUrl |-> "", gitlabToken |-> "", llmProvider |-> "openai",
   llmApiKey |-> "", llmApiUrl |-> ""]

\* lines 51-81: the errors of the settings c
validateConfigErrors(c) ==
  (IF c.gitlabUrl = "" THEN {"GitLab URL is not configured"}
   ELSE IF ~isValidUrl(c.gitlabUrl) THEN {"GitLab URL is not a valid URL"}
   ELSE {})
  \cup (IF c.gitlabToken = "" THEN {"GitLab token is not configured"} ELSE {})
  \cup (IF c.llmApiKey = "" /\ c.llmProvider # "ollama"
        THEN {"LLM API key is not configured"} ELSE {})
  \cup (IF c.llmProvider = "custom" /\ c.llmApiUrl = ""
        THEN {"Custom LLM API URL is required when using custom provider"}
        ELSE {})
  \cup (IF c.llmProvider = "ollama" /\ c.llmApiUrl = ""
        THEN {"Ollama API URL is required (e.g., http://localhost:11434)"}
        ELSE {})

validateConfig(c) ==
  [valid |-> validateConfigErrors(c) = {}, errors |-> validateConfigErrors(c)]

\* what the four input boxes of lines 101-162 return: undefined when the box
\* is dismissed, otherwise a text its validateInput accepted (not empty, and
\* for the two URLs one that new URL accepts)
ConfigAnswers ==
  [url : {None, "https://gitlab.example.com"},
   token : {None, "glpat-1"},
   apiKey : {None, "sk-1"},
   apiUrl : {None, "http://localhost:11434", "https://llm.example.com/v1"}]

\* which boxes are shown is decided on the settings read at line 98
AsksUrl(c) == c.gitlabUrl = ""
AsksToken(c) == c.gitlabToken = ""
AsksApiKey(c) == c.llmApiKey = "" /\ c.llmProvider # "ollama"
AsksApiUrl(c) == c.llmProvider \in {"custom", "ollama"} /\ c.llmApiUrl = ""

\* lines 92-167 returning true after the last box (line 166 without the
\* second validation)
promptForMissingConfig_NoRecheck(c, answers) ==
  IF validateConfig(c).valid THEN [ok |-> TRUE, config |-> c]
  ELSE IF AsksUrl(c) /\ answers.url = None THEN [ok |-> FALSE, config |-> c]
  ELSE
    LET c1 == IF AsksUrl(c) THEN [c EXCEPT !.gitlabUrl = answers.url] ELSE c
    IN IF AsksToken(c) /\ answers.token = None THEN [ok |-> FALSE, config |-> c1]
    ELSE
      LET c2 == IF AsksToken(c) THEN [c1 EXCEPT !.gitlabToken = answers.token]
                ELSE c1
      IN IF AsksApiKey(c) /\ answers.apiKey = None
         THEN [ok |-> FALSE, config |-> c2]
         ELSE
           LET c3 == IF AsksApiKey(c)
                     THEN [c2 EXCEPT !.llmApiKey = answers.apiKey] ELSE c2
           IN IF AsksApiUrl(c) /\ answers.apiUrl = None
              THEN [ok |-> FALSE, config |-> c3]
              ELSE
                LET c4 == IF AsksApiUrl(c)
                          THEN [c3 EXCEPT !.llmApiUrl = answers.apiUrl]
                          ELSE c3
                IN [ok |-> TRUE, config |-> c4]

\* lines 92-167: true for valid settings; otherwise the missing fields are
\* asked for in turn, each answer is written to the settings at once, a
\* dismissed box returns false, and after the last box the settings are
\* validated again
promptForMissingConfig(c, answers) ==
  IF validateConfig(c).valid THEN [ok |-> TRUE, config |-> c]
  ELSE IF AsksUrl(c) /\ answers.url = None THEN [ok |-> FALSE, config |-> c]
  ELSE
    LET c1 == IF AsksUrl(c) THEN [c EXCEPT !.gitlabUrl = answers.url] ELSE c
    IN IF AsksToken(c) /\ answers.token = None THEN [ok |-> FALSE, config |-> c1]
    ELSE
      LET c2 == IF AsksToken(c) THEN [c1 EXCEPT !.gitlabToken = answers.token]
                ELSE c1
      IN IF AsksApiKey(c) /\ answers.apiKey = None
         THEN [ok |-> FALSE, config |-> c2]
         ELSE
           LET c3 == IF AsksApiKey(c)
                     THEN [c2 EXCEPT !.llmApiKey = answers.apiKey] ELSE c2
           IN IF AsksApiUrl(c) /\ answers.apiUrl = None
              THEN [ok |-> FALSE, config |-> c3]
              ELSE
                LET c4 == IF AsksApiUrl(c)
                          THEN [c3 EXCEPT !.llmApiUrl = answers.apiUrl]
                          ELSE c3
                IN [ok |-> validateConfig(c4).valid, config |-> c4]

\* the first lines of every command: the workspace folder, then the settings
\* (fullWorkflow.ts lines 19-28, pushAndCreateMR.ts lines 11-20, part_005
\* lines 213-222, part_004 lines 241-250)
CommandEntry(step, nextPc) ==
  /\ Running /\ pc = step
  /\ \E workspaceOpen \in BOOLEAN, answers \in ConfigAnswers :
       IF ~workspaceOpen
       THEN /\ Move(pc, "blocked", <<>>)
            /\ UNCHANGED config
       ELSE LET prompted == promptForMissingConfig(config, answers)
            IN /\ config' = prompted.config
               /\ IF prompted.ok THEN Move(nextPc, "running", <<>>)
                  ELSE Move(pc, "blocked", <<>>)
  /\ UNCHANGED <<head, gitCheckRules, currentBranch, branchToUse, ticketNumber,
                 commitMessage, cancelRequested, mr, changes,
                 retryCount, review, nextComment, inline, targetBranch>>

\* no call of the rule extractor on its own is under way
ExtractorIdle ==
  /\ ciFile = NoCIFile
  /\ parsePc = "returned"
  /\ parseResult = ReadFailed

\* no call of a generator on its own is under way
NormalizerIdle ==
  /\ answer = [kind |-> "none"]
  /\ normPc = "returned"
  /\ normalized = <<>>
  /\ renormalized = <<>>

\* no call of selectTargetBranch on its own is under way
SelectorIdle ==
  /\ selectorArgs = None
  /\ selectorPc = "returned"
  /\ selectorResult = None

\* no concurrent runs are looked at
RaceIdle ==
  /\ runs = <<>>
  /\ openMRs = <<>>

LaterIdle ==
  /\ SelectorIdle
  /\ targetBranch = None
  /\ config = UnsetConfig
  /\ RaceIdle

Init ==
  /\ ExtractorIdle
  /\ NormalizerIdle
  /\ LaterIdle
  /\ pc = "entry"
  /\ outcome = "running"
  /\ head \in StartBranches
  /\ gitCheckRules = NoRules
  /\ currentBranch = None
  /\ branchToUse = None
  /\ ticketNumber = None
  /\ commitMessage = <<>>
  /\ cancelRequested = FALSE
  /\ mr = NoMR
  /\ changes = <<>>
  /\ retryCount = 0
  /\ review = NoReview
  /\ nextComment = 1
  /\ log = <<>>
  /\ inline = <<>>

(***************************************************************************)
(* Lines 18-39: workspace, configuration and repository checks             *)
(***************************************************************************)
Entry == CommandEntry("entry", "isRepo")

IsGitRepository ==
  /\ Running /\ pc = "isRepo"
  /\ \E isRepo \in BOOLEAN :
       IF isRepo
       THEN Goto("rules", <<Op("isGitRepository", "")>>)
       ELSE End("blocked", <<Op("isGitRepository", "")>>)
  /\ UNCHANGED <<head, gitCheckRules, currentBranch, branchToUse, ticketNumber,
                 commitMessage, cancelRequested, mr, changes,
                 retryCount, review, nextComment, inline>>

(***************************************************************************)
(* Lines 42-58: rules, status, current branch                              *)
(***************************************************************************)
ParseGitCheckRules ==
  /\ Running /\ pc = "rules"
  /\ \E file \in WorkspaceCIFiles : gitCheckRules' = parseGitCheckRules(file)
  /\ Goto("status", <<Op("parseGitCheckRules", "")>>)
  /\ UNCHANGED <<head, currentBranch, branchToUse, ticketNumber,
                 commitMessage, cancelRequested, mr, changes,
                 retryCount, review, nextComment, inline>>

GetStatus ==
  /\ Running /\ pc = "status"
  /\ \E result \in {"changes", "clean", "error"} :
       CASE result = "changes" -> Goto("currentBranch", <<Op("getStatus", "")>>)
         [] result = "clean" -> End("nochanges", <<Op("getStatus", "")>>)
         [] result = "error" -> End("failed", <<OpFailed("getStatus", "")>>)
  /\ UNCHANGED <<head, gitCheckRules, currentBranch, branchToUse, ticketNumber,
                 commitMessage, cancelRequested, mr, changes,
                 retryCount, review, nextComment, inline>>

\* line 83: on a protected branch the command goes to create a branch,
\* otherwise straight to withProgress
BranchStep(branch) == IF isProtectedBranch(branch) THEN "allDiff" ELSE "stage"

\* lines 57-64: the branch is read; the ticket is asked for only when a rule
\* requires one
GetCurrentBranch ==
  /\ Running /\ pc = "currentBranch"
  /\ \E ok \in BOOLEAN :
       IF ok
       THEN /\ currentBranch' = head
            /\ branchToUse' = head
            /\ Goto(IF gitCheckRules.requiresTicketNumber
                         \/ gitCheckRules.commitRequiresTicketNumber
                    THEN "ticket" ELSE BranchStep(head),
                    <<Op("getCurrentBranch", "")>>)
       ELSE /\ End("failed", <<OpFailed("getCurrentBranch", "")>>)
            /\ UNCHANGED <<currentBranch, branchToUse>>
  /\ UNCHANGED <<head, gitCheckRules, ticketNumber,
                 commitMessage, cancelRequested, mr, changes,
                 retryCount, review, nextComment, inline>>

\* lines 65-79: the input box accepts only /^[A-Z]+-[0-9]+$/i or is dismissed;
\* a dismissed box gives TASK-001; the ticket is upper-cased
AskTicket ==
  /\ Running /\ pc = "ticket"
  /\ \E input \in TicketInputs :
       ticketNumber' = toUpperCase(IF input = None THEN "TASK-001" ELSE input)
  /\ Goto(BranchStep(currentBranch), <<Op("askTicket", "")>>)
  /\ UNCHANGED <<head, gitCheckRules, currentBranch, branchToUse,
                 commitMessage, cancelRequested, mr, changes,
                 retryCount, review, nextComment, inline>>

(***************************************************************************)
(* Lines 82-103: on a protected branch a new branch is always created      *)
(***************************************************************************)
GetAllDiff ==
  /\ Running /\ pc = "allDiff"
  /\ \E ok \in BOOLEAN :
       IF ok THEN Goto("generateBranch", <<Op("getAllDiff", "")>>)
       ELSE End("failed", <<OpFailed("getAllDiff", "")>>)
  /\ UNCHANGED <<head, gitCheckRules, currentBranch, branchToUse, ticketNumber,
                 commitMessage, cancelRequested, mr, changes,
                 retryCount, review, nextComment, inline>>

\* lines 91-100: the LLM call, then the validation of its result
GenerateBranchName ==
  /\ Running /\ pc = "generateBranch"
  /\ \/ /\ End("failed", <<OpFailed("generateBranchName", "")>>)
        /\ UNCHANGED branchToUse
     \/ \E generatedBranchName \in GeneratedBranchNames :
          IF validateBranchName(generatedBranchName, gitCheckRules)
          THEN /\ branchToUse' = generatedBranchName
               /\ Goto("createBranch", <<Op("generateBranchName", "")>>)
          ELSE /\ End("invalid", <<Op("generateBranchName", "")>>)
               /\ UNCHANGED branchToUse
  /\ UNCHANGED <<head, gitCheckRules, currentBranch, ticketNumber,
                 commitMessage, cancelRequested, mr, changes,
                 retryCount, review, nextComment, inline>>

\* line 101: createBranch(name, true) creates the branch and checks it out
CreateBranch ==
  /\ Running /\ pc = "createBranch"
  /\ \E ok \in BOOLEAN :
       IF ok
       THEN /\ head' = branchToUse
            /\ Goto("stage", <<Op("createBranch", branchToUse)>>)
       ELSE /\ End("failed", <<OpFailed("createBranch", branchToUse)>>)
            /\ UNCHANGED head
  /\ UNCHANGED <<gitCheckRules, currentBranch, branchToUse, ticketNumber,
                 commitMessage, cancelRequested, mr, changes,
                 retryCount, review, nextComment, inline>>

(***************************************************************************)
(* Lines 105-146: withProgress; stage, generate and validate the commit    *)
(* message, confirm, commit.  From here on the run can be cancelled.       *)
(***************************************************************************)
\* a token that is never consulted
isCancellationRequested_Never == FALSE

\* token.isCancellationRequested
isCancellationRequested == cancelRequested

\* lines 113-115
StageAll ==
  /\ Running /\ pc = "stage"
  /\ IF isCancellationRequested THEN End("cancelled", <<>>)
     ELSE \E ok \in BOOLEAN :
            IF ok THEN Goto("stagedDiff", <<Op("stageAll", head)>>)
            ELSE End("failed", <<OpFailed("stageAll", head)>>)
  /\ UNCHANGED <<head, gitCheckRules, currentBranch, branchToUse, ticketNumber,
                 commitMessage, cancelRequested, mr, changes,
                 retryCount, review, nextComment, inline>>

\* line 119
GetStagedDiff ==
  /\ Running /\ pc = "stagedDiff"
  /\ \E ok \in BOOLEAN :
       IF ok THEN Goto("generateCommit", <<Op("getStagedDiff", "")>>)
       ELSE End("failed", <<OpFailed("getStagedDiff", "")>>)
  /\ UNCHANGED <<head, gitCheckRules, currentBranch, branchToUse, ticketNumber,
                 commitMessage, cancelRequested, mr, changes,
                 retryCount, review, nextComment, inline>>

\* lines 122-130: the LLM call, then the validation of its result
GenerateCommitMessage ==
  /\ Running /\ pc = "generateCommit"
  /\ \/ /\ End("failed", <<OpFailed("generateCommitMessage", "")>>)
        /\ UNCHANGED commitMessage
     \/ \E message \in GeneratedCommitMessages :
          /\ commitMessage' = message
          /\ IF validateCommitMessage(message, gitCheckRules)
             THEN Goto("confirm", <<Op("generateCommitMessage", "")>>)
             ELSE End("invalid", <<Op("generateCommitMessage", "")>>)
  /\ UNCHANGED <<head, gitCheckRules, currentBranch, branchToUse, ticketNumber,
                 cancelRequested, mr, changes,
                 retryCount, review, nextComment, inline>>

\* what showInformationMessage resolved to: a button, or undefined when the
\* message was dismissed
ConfirmAnswer(choice) == IF choice = None THEN "dismissed" ELSE choice

\* lines 141-143 without the return
ConfirmDeclined_GoesOn(choice) ==
  Goto("commit", <<Op("confirmCommit", ConfirmAnswer(choice))>>)

\* lines 141-143: if (confirmCommit !== 'Continue') return
ConfirmDeclined(choice) ==
  End("declined", <<Op("confirmCommit", ConfirmAnswer(choice))>>)

\* lines 132-143: the confirmation dialog
ConfirmCommit ==
  /\ Running /\ pc = "confirm"
  /\ IF isCancellationRequested THEN End("cancelled", <<>>)
     ELSE \E confirmCommit \in {"Continue", "Cancel", None} :
            IF confirmCommit = "Continue"
            THEN Goto("commit", <<Op("confirmCommit", "Continue")>>)
            ELSE ConfirmDeclined(confirmCommit)
  /\ UNCHANGED <<head, gitCheckRules, currentBranch, branchToUse, ticketNumber,
                 commitMessage, cancelRequested, mr, changes,
                 retryCount, review, nextComment, inline>>

\* line 146: the commit lands on the checked-out branch
Commit ==
  /\ Running /\ pc = "commit"
  /\ \E ok \in BOOLEAN :
       IF ok THEN Goto("push", <<Op("commit", head)>>)
       ELSE End("failed", <<OpFailed("commit", head)>>)
  /\ UNCHANGED <<head, gitCheckRules, currentBranch, branchToUse, ticketNumber,
                 commitMessage, cancelRequested, mr, changes,
                 retryCount, review, nextComment, inline>>

(***************************************************************************)
(* Lines 148-157: push with --set-upstream, then once without              *)
(***************************************************************************)
\* where the command goes when the first push attempt throws, without the
\* catch of line 155
PushFailed_NoRetry == End("failed", <<OpFailed("push", "--set-upstream")>>)

\* where the command goes when the first push attempt throws (line 155)
PushFailed == Goto("pushRetry", <<OpFailed("push", "--set-upstream")>>)

Push ==
  /\ Running /\ pc = "push"
  /\ IF isCancellationRequested THEN End("cancelled", <<>>)
     ELSE \E ok \in BOOLEAN :
            IF ok THEN Goto("remote", <<Op("push", "--set-upstream")>>)
            ELSE PushFailed
  /\ UNCHANGED <<head, gitCheckRules, currentBranch, branchToUse, ticketNumber,
                 commitMessage, cancelRequested, mr, changes,
                 retryCount, review, nextComment, inline>>

\* line 156: the retry is not guarded; its failure reaches the outer catch
PushRetry ==
  /\ Running /\ pc = "pushRetry"
  /\ \E ok \in BOOLEAN :
       IF ok THEN Goto("remote", <<Op("push", "")>>)
       ELSE End("failed", <<OpFailed("push", "")>>)
  /\ UNCHANGED <<head, gitCheckRules, currentBranch, branchToUse, ticketNumber,
                 commitMessage, cancelRequested, mr, changes,
                 retryCount, review, nextComment, inline>>

(***************************************************************************)
(* Lines 159-174: project lookup                                           *)
(***************************************************************************)
\* getRemoteUrl never throws; a missing or unparsable URL throws here
GetRemoteUrl ==
  /\ Running /\ pc = "remote"
  /\ IF isCancellationRequested THEN End("cancelled", <<>>)
     ELSE \E remoteUrl \in {"gitlab", None, "unparsable"} :
            IF remoteUrl = "gitlab"
            THEN Goto("project", <<Op("getRemoteUrl", "")>>)
            ELSE End("failed", <<Op("getRemoteUrl", "")>>)
  /\ UNCHANGED <<head, gitCheckRules, currentBranch, branchToUse, ticketNumber,
                 commitMessage, cancelRequested, mr, changes,
                 retryCount, review, nextComment, inline>>

GetProject ==
  /\ Running /\ pc = "project"
  /\ \E ok \in BOOLEAN :
       IF ok THEN Goto("listMR", <<Op("getProject", "")>>)
       ELSE End("failed", <<OpFailed("getProject", "")>>)
  /\ UNCHANGED <<head, gitCheckRules, currentBranch, branchToUse, ticketNumber,
                 commitMessage, cancelRequested, mr, changes,
                 retryCount, review, nextComment, inline>>

(***************************************************************************)
(* Lines 176-239: reuse the open merge request of the branch or create one *)
(***************************************************************************)
\* answers of listMergeRequests(state opened, source branch): none, or two
\* open merge requests of which the first has no diff_refs yet
ExistingMRLists ==
  {<<>>,
   <<[iid |-> 8, diff_refs |-> FALSE, created |-> FALSE],
     [iid |-> 7, diff_refs |-> TRUE, created |-> FALSE]>>}

\* answer of createMergeRequest
CreatedMR == [iid |-> 9, diff_refs |-> TRUE, created |-> TRUE]

\* config.defaultTargetBranch: set, or the empty string
DefaultTargetBranches == {"main", ""}

\* line 186 with the test lost
HasOpenMR_Never(existingMRs) == FALSE

\* line 186: existingMRs.length > 0
HasOpenMR(existingMRs) == Len(existingMRs) > 0

\* lines 179-194.  config is read at line 30; defaultTargetBranch is first
\* looked at here, so its value is drawn here.
ListMergeRequests ==
  /\ Running /\ pc = "listMR"
  /\ IF isCancellationRequested
     THEN End("cancelled", <<>>) /\ UNCHANGED mr
     ELSE \/ End("failed", <<OpFailed("listMergeRequests", "")>>) /\ UNCHANGED mr
          \/ \E existingMRs \in ExistingMRLists :
               IF HasOpenMR(existingMRs)
               THEN /\ mr' = existingMRs[1]
                    /\ Goto("changes", <<Op("listMergeRequests", "existing")>>)
               ELSE /\ UNCHANGED mr
                    /\ \E defaultTargetBranch \in DefaultTargetBranches :
                         Goto(IF defaultTargetBranch # "" THEN "commitsBetween"
                              ELSE "targetBranch",
                              <<Op("listMergeRequests",
                                   IF Len(existingMRs) > 0 THEN "existing"
                                   ELSE "none")>>)
  /\ UNCHANGED <<head, gitCheckRules, currentBranch, branchToUse, ticketNumber,
                 commitMessage, cancelRequested, changes,
                 retryCount, review, nextComment, inline>>

\* const priorityOrder of gitService.getMRTargetBranch (part_002 line 127)
MRPriorityOrder == <<"develop", "development", "dev", "main", "master">>

\* what getBranches and "git remote show origin" give getMRTargetBranch
LocalBranchLists == {<<"main", "develop">>, <<"staging", "release">>}
RemoteHeads == {None, "trunk"}

\* gitService.getMRTargetBranch (part_002 lines 123-150): the first priority
\* name that is a local branch; else the HEAD branch of the remote; else the
\* first local branch, or main.  rule names the line that decided.
getMRTargetBranch(branches, remoteHead) ==
  LET hits == {i \in DOMAIN MRPriorityOrder :
                 MRPriorityOrder[i] \in Range(branches)}
  IN IF hits # {}
     THEN [targetBranch |-> MRPriorityOrder[Min(hits)], rule |-> "priority"]
     ELSE IF remoteHead # None
     THEN [targetBranch |-> remoteHead, rule |-> "remote"]
     ELSE IF Len(branches) > 0
     THEN [targetBranch |-> branches[1], rule |-> "first"]
     ELSE [targetBranch |-> "main", rule |-> "first"]

\* line 194, second operand: the branch is used as it comes
GetMRTargetBranch ==
  /\ Running /\ pc = "targetBranch"
  /\ \/ End("failed", <<OpFailed("getMRTargetBranch", "")>>)
     \/ \E branches \in LocalBranchLists, remoteHead \in RemoteHeads :
          Goto("commitsBetween",
               <<Op("getMRTargetBranch",
                    getMRTargetBranch(branches, remoteHead).rule)>>)
  /\ UNCHANGED <<head, gitCheckRules, currentBranch, branchToUse, ticketNumber,
                 commitMessage, cancelRequested, mr, changes,
                 retryCount, review, nextComment, inline>>

\* line 195
GetCommitsBetween ==
  /\ Running /\ pc = "commitsBetween"
  /\ \E ok \in BOOLEAN :
       IF ok THEN Goto("branchDiff", <<Op("getCommitsBetween", "")>>)
       ELSE End("failed", <<OpFailed("getCommitsBetween", "")>>)
  /\ UNCHANGED <<head, gitCheckRules, currentBranch, branchToUse, ticketNumber,
                 commitMessage, cancelRequested, mr, changes,
                 retryCount, review, nextComment, inline>>

\* lines 196-206: the diff; the template read that follows never fails the run
GetDiffWithBranch ==
  /\ Running /\ pc = "branchDiff"
  /\ \E ok \in BOOLEAN :
       IF ok THEN Goto("describeMR", <<Op("getDiffWithBranch", "")>>)
       ELSE End("failed", <<OpFailed("getDiffWithBranch", "")>>)
  /\ UNCHANGED <<head, gitCheckRules, currentBranch, branchToUse, ticketNumber,
                 commitMessage, cancelRequested, mr, changes,
                 retryCount, review, nextComment, inline>>

\* lines 208-213
GenerateMRDescription ==
  /\ Running /\ pc = "describeMR"
  /\ \E ok \in BOOLEAN :
       IF ok THEN Goto("title", <<Op("generateMRDescription", "")>>)
       ELSE End("failed", <<OpFailed("generateMRDescription", "")>>)
  /\ UNCHANGED <<head, gitCheckRules, currentBranch, branchToUse, ticketNumber,
                 commitMessage, cancelRequested, mr, changes,
                 retryCount, review, nextComment, inline>>

\* lines 215-224: the title input box; an empty or dismissed box ends the run
AskTitle ==
  /\ Running /\ pc = "title"
  /\ IF isCancellationRequested THEN End("cancelled", <<>>)
     ELSE \E finalTitle \in {"Add login", "", None} :
            IF finalTitle \notin {"", None}
            THEN Goto("createMR", <<Op("askTitle", "")>>)
            ELSE End("declined", <<Op("askTitle", "")>>)
  /\ UNCHANGED <<head, gitCheckRules, currentBranch, branchToUse, ticketNumber,
                 commitMessage, cancelRequested, mr, changes,
                 retryCount, review, nextComment, inline>>

\* lines 228-238
CreateMergeRequest ==
  /\ Running /\ pc = "createMR"
  /\ \E ok \in BOOLEAN :
       IF ok
       THEN /\ mr' = CreatedMR
            /\ Goto("changes", <<Op("createMergeRequest", branchToUse)>>)
       ELSE /\ UNCHANGED mr
            /\ End("failed", <<OpFailed("createMergeRequest", branchToUse)>>)
  /\ UNCHANGED <<head, gitCheckRules, currentBranch, branchToUse, ticketNumber,
                 commitMessage, cancelRequested, changes,
                 retryCount, review, nextComment, inline>>

(***************************************************************************)
(* Lines 241-263: read the changes, polling while there are none           *)
(***************************************************************************)
\* answers of getMergeRequestChanges
ChangeLists == {<<>>, <<[old_path |-> "old.ts", new_path |-> "new.ts"]>>}

\* what the history keeps of a read's answer
ReadArg(c) == IF Len(c) = 0 THEN "empty" ELSE "changes"

\* the loop test of line 252 with <= for <
KeepPolling_OffByOne(c, rc) == Len(c) = 0 /\ rc <= maxRetries

\* the loop test of line 252
KeepPolling(c, rc) == Len(c) = 0 /\ rc < maxRetries

\* lines 252-263 without the test of line 259
AfterRead_NoEmptyTest(c, rc, ops) ==
  /\ changes' = c
  /\ IF KeepPolling(c, rc)
     THEN retryCount' = rc + 1 /\ Goto("poll", ops)
     ELSE retryCount' = rc /\ Goto("context", ops)

\* lines 252-263 with a timer that never fires: the loop body is entered and
\* not left
AfterRead_Hangs(c, rc, ops) ==
  /\ changes' = c
  /\ IF KeepPolling(c, rc)
     THEN retryCount' = rc + 1 /\ Goto("timer", ops)
     ELSE /\ retryCount' = rc
          /\ IF Len(c) = 0 THEN End("warning", ops)
             ELSE Goto("context", ops)

\* lines 252-263 with a loop body that goes back to the creation of the merge
\* request instead of reading again
AfterRead_Recreate(c, rc, ops) ==
  /\ changes' = c
  /\ IF KeepPolling(c, rc)
     THEN retryCount' = rc + 1 /\ Goto("createMR", ops)
     ELSE /\ retryCount' = rc
          /\ IF Len(c) = 0 THEN End("warning", ops)
             ELSE Goto("context", ops)

\* lines 252-263, run after a read returned c with the counter at rc: the
\* loop body is entered (the counter goes up and the 2 s timer is awaited),
\* or the loop is left and the run ends with a warning or goes on
AfterRead(c, rc, ops) ==
  /\ changes' = c
  /\ IF KeepPolling(c, rc)
     THEN retryCount' = rc + 1 /\ Goto("poll", ops)
     ELSE /\ retryCount' = rc
          /\ IF Len(c) = 0 THEN End("warning", ops)
             ELSE Goto("context", ops)

\* lines 241-247: the first read
GetMergeRequestChanges ==
  /\ Running /\ pc = "changes"
  /\ IF isCancellationRequested
     THEN End("cancelled", <<>>) /\ UNCHANGED <<changes, retryCount>>
     ELSE \/ /\ End("failed", <<OpFailed("getMergeRequestChanges", "")>>)
             /\ UNCHANGED <<changes, retryCount>>
          \/ \E c \in ChangeLists :
               AfterRead(c, retryCount, <<Op("getMergeRequestChanges", ReadArg(c))>>)
  /\ UNCHANGED <<head, gitCheckRules, currentBranch, branchToUse, ticketNumber,
                 commitMessage, cancelRequested, mr,
                 review, nextComment, inline>>

\* lines 255-256: the timer fires and the changes are read again
PollChanges ==
  /\ Running /\ pc = "poll"
  /\ \/ /\ End("failed", <<OpFailed("getMergeRequestChanges", "")>>)
        /\ UNCHANGED <<changes, retryCount>>
     \/ \E c \in ChangeLists :
          AfterRead(c, retryCount, <<Op("getMergeRequestChanges", ReadArg(c))>>)
  /\ UNCHANGED <<head, gitCheckRules, currentBranch, branchToUse, ticketNumber,
                 commitMessage, cancelRequested, mr,
                 review, nextComment, inline>>

(***************************************************************************)
(* Lines 265-270: the review.  reviewCode (llmService.ts lines 385-398)    *)
(* returns JSON.parse of the answer as it is, or the fallback when the     *)
(* answer does not parse.                                                  *)
(***************************************************************************)
ErrorComment == [severity |-> "error", file |-> "new.ts", line |-> 3]
WarningComment == [severity |-> "warning", file |-> "old.ts", line |-> 1]
InfoComment == [severity |-> "info", file |-> "new.ts", line |-> 2]
UnmappedComment == [severity |-> "error", file |-> "other.ts", line |-> 5]
NoLineComment == [severity |-> "warning", file |-> "new.ts", line |-> 0]
NoFileComment == [severity |-> "error", file |-> "", line |-> 4]

\* comment lists repeat one of these patterns
CommentPatterns ==
  {<<ErrorComment>>,
   <<WarningComment, InfoComment>>,
   <<UnmappedComment, ErrorComment>>,
   <<NoLineComment, NoFileComment, InfoComment, WarningComment>>}

CommentList(pattern, n) ==
  [i \in 1..n |-> pattern[((i - 1) % Len(pattern)) + 1]]

\* an answer that parses to an object of the expected shape
ParsedReviews ==
  {[isObject |-> TRUE, summary |-> "Review of the changes.",
    comments |-> CommentList(p, n), score |-> 80] :
     p \in CommentPatterns, n \in 0..MaxComments}

\* the fallback of lines 391-397 for an answer that does not parse
FallbackReview(content) ==
  [isObject |-> TRUE, summary |-> content, comments |-> <<>>, score |-> 70]

\* an answer that parses to something else, such as {} or null: reading
\* .comments of it gives undefined (or throws)
ShapelessReview ==
  [isObject |-> FALSE, summary |-> None, comments |-> <<>>, score |-> 0]

\* answers that are no JSON text
UnparsableTexts == {"Looks fine to me.", "I cannot review this diff."}

\* response.content of the review call (line 386): a text JSON.parse throws
\* on, or a text it parses to the value given
ReviewResponses ==
  {[content |-> t, parses |-> FALSE] : t \in UnparsableTexts}
    \cup {[content |-> "json", parses |-> TRUE, value |-> r] :
            r \in ParsedReviews \cup {ShapelessReview}}

\* lines 389-398 with a check of the shape of the parsed value
reviewCode_Validated(response) ==
  IF response.parses /\ response.value.isObject THEN response.value
  ELSE FallbackReview(response.content)

\* lines 389-398 with a fallback that drops the answer
reviewCode_EmptySummary(response) ==
  IF response.parses THEN response.value ELSE FallbackReview("")

\* lines 389-398: return JSON.parse(response.content), or the fallback from
\* the catch
reviewCode(response) ==
  IF response.parses THEN response.value ELSE FallbackReview(response.content)

ReviewResults == {reviewCode(response) : response \in ReviewResponses}

\* line 269: loadBusinessContext never throws
LoadBusinessContext ==
  /\ Running /\ pc = "context"
  /\ Goto("review", <<Op("loadBusinessContext", "")>>)
  /\ UNCHANGED <<head, gitCheckRules, currentBranch, branchToUse, ticketNumber,
                 commitMessage, cancelRequested, mr, changes,
                 retryCount, review, nextComment, inline>>

\* a review call that throws is made again
ReviewFailed_Retry == Goto("review", <<OpFailed("reviewCode", "")>>)

\* a review call that throws reaches the catch of lines 361-367, as every
\* call outside the try blocks of lines 153 and 305 does
ReviewFailed == End("failed", <<OpFailed("reviewCode", "")>>)

\* line 270
ReviewCode ==
  /\ Running /\ pc = "review"
  /\ \/ /\ ReviewFailed
        /\ UNCHANGED review
     \/ \E response \in ReviewResponses :
          /\ review' = reviewCode(response)
          /\ Goto("note", <<Op("reviewCode",
                               IF response.parses THEN ""
                               ELSE response.content)>>)
  /\ UNCHANGED <<head, gitCheckRules, currentBranch, branchToUse, ticketNumber,
                 commitMessage, cancelRequested, mr, changes,
                 retryCount, nextComment, inline>>

(***************************************************************************)
(* Lines 272-330: the summary note, then the inline discussions            *)
(***************************************************************************)
\* the first n elements of a sequence: slice(0, n)
Slice(seq, n) == SubSeq(seq, 1, IF Len(seq) < n THEN Len(seq) ELSE n)

IsTopSeverity(c) == c.severity = "error" \/ c.severity = "warning"

\* lines 299-301 without the severity filter
topComments_Unfiltered(r) == Slice(r.comments, TopCommentsLimit)

\* lines 299-301 without the slice
topComments_Unlimited(r) == SelectSeq(r.comments, IsTopSeverity)

\* lines 299-301
topComments(r) == Slice(SelectSeq(r.comments, IsTopSeverity), TopCommentsLimit)

\* line 304 and lines 306-310: the comment names a file and a line, the merge
\* request has diff_refs, and a changed file has that path
Postable(comment, m, cs) ==
  /\ comment.file # "" /\ comment.line # 0 /\ m.diff_refs
  /\ \E i \in DOMAIN cs :
       cs[i].new_path = comment.file \/ cs[i].old_path = comment.file

\* where the loop of line 303 stands after comment i
InlineStep(r, i) == IF i > Len(topComments(r)) THEN "finish" ELSE "inline"

\* lines 272-296: building the note reads review.comments.length, which
\* throws when the review has no comments list
CreateMRNote ==
  /\ Running /\ pc = "note"
  /\ IF isCancellationRequested THEN End("cancelled", <<>>)
     ELSE IF ~review.isObject THEN End("failed", <<>>)
     ELSE \E ok \in BOOLEAN :
            IF ok THEN Goto(InlineStep(review, 1), <<Op("createMRNote", "")>>)
            ELSE End("failed", <<OpFailed("createMRNote", "")>>)
  /\ UNCHANGED <<head, gitCheckRules, currentBranch, branchToUse, ticketNumber,
                 commitMessage, cancelRequested, mr, changes,
                 retryCount, review, nextComment, inline>>

\* what a createMRDiscussion call that throws does to the run, without the
\* try/catch of lines 305 and 326
DiscussionFailed_Uncaught(i, comment) ==
  /\ End("failed", <<OpFailed("createMRDiscussion", comment.file)>>)
  /\ nextComment' = nextComment
  /\ inline' = Append(inline, [index |-> i, result |-> "error"])

\* a createMRDiscussion call that throws is tried again for the same comment
DiscussionFailed_Retry(i, comment) ==
  /\ Goto("inline", <<OpFailed("createMRDiscussion", comment.file)>>)
  /\ nextComment' = i
  /\ inline' = Append(inline, [index |-> i, result |-> "error"])

\* what a createMRDiscussion call that throws does to the run (line 326)
DiscussionFailed(i, comment) ==
  /\ Goto(InlineStep(review, i + 1),
          <<OpFailed("createMRDiscussion", comment.file)>>)
  /\ nextComment' = i + 1
  /\ inline' = Append(inline, [index |-> i, result |-> "error"])

\* lines 303-330: one iteration of the loop over topComments
InlineComment ==
  /\ Running /\ pc = "inline"
  /\ LET i == nextComment
         comment == topComments(review)[i]
     IN IF Postable(comment, mr, changes)
        THEN \/ /\ Goto(InlineStep(review, i + 1),
                        <<Op("createMRDiscussion", comment.file)>>)
                /\ nextComment' = i + 1
                /\ inline' = Append(inline, [index |-> i, result |-> "posted"])
             \/ DiscussionFailed(i, comment)
        ELSE /\ Goto(InlineStep(review, i + 1), <<>>)
             /\ nextComment' = i + 1
             /\ inline' = Append(inline, [index |-> i, result |-> "skipped"])
  /\ UNCHANGED <<head, gitCheckRules, currentBranch, branchToUse, ticketNumber,
                 commitMessage, cancelRequested, mr, changes,
                 retryCount, review>>

\* lines 333-360: the closing message; whatever the user picks, the run is done
Finish ==
  /\ Running /\ pc = "finish"
  /\ End("completed", <<>>)
  /\ UNCHANGED <<head, gitCheckRules, currentBranch, branchToUse, ticketNumber,
                 commitMessage, cancelRequested, mr, changes,
                 retryCount, review, nextComment, inline>>

(***************************************************************************)
(* The user presses Cancel on the progress notification (line 108); the    *)
(* notification exists while the callback of line 109 runs.                *)
(***************************************************************************)
ProgressSteps ==
  {"stage", "stagedDiff", "generateCommit", "confirm", "commit", "push",
   "pushRetry", "remote", "project", "listMR", "targetBranch",
   "commitsBetween", "branchDiff", "describeMR", "title", "createMR",
   "changes", "poll", "context", "review", "note", "inline", "finish"}

RequestCancel ==
  /\ Running /\ pc \in ProgressSteps
  /\ ~cancelRequested
  /\ cancelRequested' = TRUE
  /\ UNCHANGED <<pc, outcome, head, gitCheckRules, currentBranch, branchToUse,
                 ticketNumber, commitMessage, mr, changes, retryCount, review,
                 nextComment, log, inline>>
  /\ UNCHANGED <<extractorVars, normalizerVars, laterVars>>

Next ==
  \/ Entry \/ IsGitRepository \/ ParseGitCheckRules \/ GetStatus
  \/ GetCurrentBranch \/ AskTicket
  \/ GetAllDiff \/ GenerateBranchName \/ CreateBranch
  \/ StageAll \/ GetStagedDiff \/ GenerateCommitMessage \/ ConfirmCommit
  \/ Commit \/ Push \/ PushRetry
  \/ GetRemoteUrl \/ GetProject
  \/ ListMergeRequests \/ GetMRTargetBranch \/ GetCommitsBetween
  \/ GetDiffWithBranch \/ GenerateMRDescription \/ AskTitle
  \/ CreateMergeRequest
  \/ GetMergeRequestChanges \/ PollChanges
  \/ LoadBusinessContext \/ ReviewCode
  \/ CreateMRNote \/ InlineComment \/ Finish
  \/ RequestCancel

Spec == Init /\ [][Next]_vars

(***************************************************************************)
(* Reading the history                                                     *)
(***************************************************************************)
Issued(name) == {i \in DOMAIN log : log[i].op = name}
Count(name) == Cardinality(Issued(name))
Ended == outcome # "running"

\* the protected names of the specification, compared without case
ProtectedName(b) ==
  toLowerCase(b) \in {"main", "master", "dev", "develop", "development"}

(***************************************************************************)
(* C1: a run that starts on a protected branch commits only after it       *)
(* created and checked out a new branch whose name is not protected (the   *)
(* commit lands on that branch); when the generated name fails validation  *)
(* or the branch creation fails, the run has ended without staging and     *)
(* without committing.                                                     *)
(***************************************************************************)
C1_BranchBeforeCommit ==
  /\ (currentBranch # None /\ ProtectedName(currentBranch)) =>
       \A i \in Issued("commit") :
         \E j \in Issued("createBranch") :
           /\ j < i /\ log[j].ok
           /\ ~ProtectedName(log[j].arg)
           /\ log[i].arg = log[j].arg
  /\ ((pc = "generateBranch" /\ outcome = "invalid")
        \/ (pc = "createBranch" /\ outcome = "failed")) =>
       /\ Issued("stageAll") = {} /\ Issued("commit") = {}

\* a run that started on a protected branch has committed
C1_Witness ==
  /\ currentBranch # None /\ ProtectedName(currentBranch)
  /\ \E i \in Issued("commit") : log[i].ok

(***************************************************************************)
(* C2: a commit is issued only for a message whose subject line passed the *)
(* commit rule; when the validation fails the run has ended at that step   *)
(* with no commit, no push and no merge request created.                   *)
(***************************************************************************)
SubjectAccepted(message, rules) ==
  rules.commitMessageRegex = None
    \/ (Len(message) > 0 /\ RegExpTest(rules.commitMessageRegex, message[1]))

C2_CommitOnlyValidated ==
  /\ Issued("commit") # {} => SubjectAccepted(commitMessage, gitCheckRules)
  /\ (Len(commitMessage) > 0 /\ ~SubjectAccepted(commitMessage, gitCheckRules)) =>
       /\ pc = "generateCommit" /\ outcome = "invalid"
       /\ Issued("commit") = {} /\ Issued("push") = {}
       /\ Issued("createMergeRequest") = {}

\* a message was committed under a rule set that has a commit regex
C2_Witness ==
  /\ gitCheckRules.commitMessageRegex # None
  /\ \E i \in Issued("commit") : log[i].ok

(***************************************************************************)
(* C3: the first push carries --set-upstream; a second push is issued only *)
(* after the first one failed, and without the flag; there are at most two *)
(* pushes; a run never fails on the first push alone; when the second push *)
(* fails the run has failed at the push step and nothing was issued after. *)
(***************************************************************************)
C3_PushRetry ==
  LET pushes == SelectSeq(log, LAMBDA e : e.op = "push")
  IN /\ Len(pushes) <= 2
     /\ Len(pushes) >= 1 => pushes[1].arg = "--set-upstream"
     /\ Len(pushes) = 2 => (~pushes[1].ok /\ pushes[2].arg = "")
     /\ (Len(pushes) = 1 /\ ~pushes[1].ok) => (pc = "pushRetry" /\ ~Ended)
     /\ \A i \in Issued("push") :
          (log[i].arg = "" /\ ~log[i].ok) =>
            /\ i = Len(log)
            /\ pc = "pushRetry" /\ outcome = "failed"

\* the second push failed
C3_Witness ==
  \E i \in Issued("push") : log[i].arg = "" /\ ~log[i].ok

(***************************************************************************)
(* C4: createMergeRequest comes after the query of the open merge          *)
(* requests; when the query found one, the run uses the first one found,   *)
(* issues no createMergeRequest, no description generation and no title    *)
(* prompt, and the next operation after the query is the read of changes.  *)
(***************************************************************************)
C4_ReuseOpenMR ==
  /\ \A i \in Issued("createMergeRequest") :
       \E j \in Issued("listMergeRequests") : j < i
  /\ \A j \in Issued("listMergeRequests") :
       (log[j].ok /\ log[j].arg = "existing") =>
         /\ Issued("createMergeRequest") = {}
         /\ Issued("generateMRDescription") = {}
         /\ Issued("askTitle") = {}
         /\ mr = [iid |-> 8, diff_refs |-> FALSE, created |-> FALSE]
         /\ j < Len(log) => log[j + 1].op = "getMergeRequestChanges"

\* an open merge request was found and its changes were read
C4_Witness ==
  /\ \E j \in Issued("listMergeRequests") : log[j].arg = "existing"
  /\ Issued("getMergeRequestChanges") # {}

(***************************************************************************)
(* C5, as claimed: a run issues at most 5 getMergeRequestChanges calls,    *)
(* and no read follows a read that returned a changed file.                *)
(***************************************************************************)
C5_AtMostFiveReads ==
  /\ Count("getMergeRequestChanges") <= 5
  /\ \A i \in Issued("getMergeRequestChanges") :
       log[i].arg = "changes" =>
         \A j \in Issued("getMergeRequestChanges") : j <= i

(***************************************************************************)
(* C5, amended: a run issues at most 6 getMergeRequestChanges calls (the   *)
(* first read and at most 5 retries), the retry counter never exceeds 5,   *)
(* and no read follows a read that returned a changed file.                *)
(***************************************************************************)
C5_AtMostSixReads ==
  /\ Count("getMergeRequestChanges") <= 6
  /\ retryCount <= 5
  /\ \A i \in Issued("getMergeRequestChanges") :
       log[i].arg = "changes" =>
         \A j \in Issued("getMergeRequestChanges") : j <= i

\* the sixth read returned a changed file and the run went on to the review
C5_Witness ==
  /\ Count("getMergeRequestChanges") = 6
  /\ log[Len(log)].op = "getMergeRequestChanges"
  /\ log[Len(log)].arg = "changes"
  /\ pc = "context"

(***************************************************************************)
(* C6: the review call, the summary note and the inline discussions come   *)
(* only after a read that returned a changed file; a run whose reads all   *)
(* came back empty (the first read and the 5 retries) has ended with the   *)
(* warning, not as failed, and has issued no review call, no note and no   *)
(* discussion; the warning ending happens in no other case.                *)
(***************************************************************************)
EmptyReads ==
  {i \in Issued("getMergeRequestChanges") : log[i].ok /\ log[i].arg = "empty"}

C6_ReviewNeedsChanges ==
  /\ \A i \in Issued("loadBusinessContext") \cup Issued("reviewCode")
               \cup Issued("createMRNote") \cup Issued("createMRDiscussion") :
       \E j \in Issued("getMergeRequestChanges") :
         j < i /\ log[j].ok /\ log[j].arg = "changes"
  /\ Cardinality(EmptyReads) = 6 =>
       /\ outcome = "warning"
       /\ Issued("reviewCode") = {} /\ Issued("createMRNote") = {}
       /\ Issued("createMRDiscussion") = {}
  /\ outcome = "warning" =>
       /\ Cardinality(EmptyReads) = 6
       /\ Count("getMergeRequestChanges") = 6

\* every read came back empty and the run ended with the warning
C6_Witness ==
  /\ outcome = "warning"
  /\ Cardinality(EmptyReads) = 6

(***************************************************************************)
(* C7, as claimed: a run that reached the comment-posting step (it passed  *)
(* the cancellation check of line 272) issues exactly one summary note,    *)
(* before any inline discussion; at most 5 inline discussions are issued,  *)
(* each for a review comment of severity error or warning.                 *)
(***************************************************************************)
ReachedPosting ==
  \/ pc \in {"inline", "finish"}
  \/ pc = "note" /\ Ended /\ outcome # "cancelled"

C7_OneNoteThenInline ==
  /\ ReachedPosting => Count("createMRNote") = 1
  /\ \A i \in Issued("createMRDiscussion") :
       \E j \in Issued("createMRNote") : j < i
  /\ Count("createMRDiscussion") <= 5
  /\ \A k \in DOMAIN inline :
       inline[k].result # "skipped" =>
         topComments(review)[inline[k].index].severity \in {"error", "warning"}

(***************************************************************************)
(* C8: a failed or unmappable inline comment is skipped and the loop goes  *)
(* on: the selected comments are handled one after the other, none left    *)
(* out; once the summary note is posted the run never ends as failed or    *)
(* cancelled; a completed run has handled every selected comment and has   *)
(* issued a discussion call for every postable one.                        *)
(***************************************************************************)
NotePosted == \E j \in Issued("createMRNote") : log[j].ok

C8_InlineFailuresSkipped ==
  /\ \A k \in DOMAIN inline : inline[k].index = k
  /\ NotePosted =>
       /\ outcome \in {"running", "completed"}
       /\ nextComment = Len(inline) + 1
  /\ (pc = "finish" \/ outcome = "completed") =>
       /\ NotePosted
       /\ Len(inline) = Len(topComments(review))
       /\ \A k \in DOMAIN inline :
            (inline[k].result = "skipped")
              <=> ~Postable(topComments(review)[k], mr, changes)
       /\ Count("createMRDiscussion")
            = Cardinality({k \in DOMAIN inline : inline[k].result # "skipped"})

\* a completed run in which a discussion call failed, a later one was
\* posted and an unmappable comment was skipped
C8_Witness ==
  /\ outcome = "completed"
  /\ \E k, l \in DOMAIN inline :
       k < l /\ inline[k].result = "error" /\ inline[l].result = "posted"
  /\ \E k, l \in DOMAIN inline :
       k < l /\ inline[k].result = "skipped" /\ inline[l].result = "posted"

(***************************************************************************)
(* C9, as claimed: at the start of each side-effecting stage (branch       *)
(* creation on a protected branch, staging, commit, push, project lookup,  *)
(* merge request query and creation, changes polling, the review call,     *)
(* comment posting) a cancellation requested earlier ends the run as       *)
(* cancelled, and nothing is issued.                                       *)
(***************************************************************************)
StageStarts ==
  {"allDiff", "stage", "confirm", "push", "remote", "listMR", "changes",
   "context", "note"}

C9_CancelAtEveryStage ==
  [][(Running /\ cancelRequested /\ pc \in StageStarts)
       => (outcome' = "cancelled" /\ log' = log /\ head' = head)]_vars

(***************************************************************************)
(* C9, amended: the cancellation is looked at before staging, before the   *)
(* commit confirmation, before the push, before the project lookup,        *)
(* before the merge request query, before the title prompt, before the     *)
(* first read of the changes and before the summary note; a run that       *)
(* reaches one of these steps with the cancellation requested ends there   *)
(* as cancelled and issues nothing; a run ends as cancelled nowhere else.  *)
(***************************************************************************)
CheckedSteps ==
  {"stage", "confirm", "push", "remote", "listMR", "title", "changes", "note"}

C9_CancelAtChecks ==
  /\ [][(Running /\ cancelRequested /\ pc \in CheckedSteps)
          => (outcome' = "cancelled" /\ log' = log /\ head' = head)]_vars
  /\ [](outcome = "cancelled" => (cancelRequested /\ pc \in CheckedSteps))

\* the run was cancelled between the commit and the push
C9_Witness ==
  /\ outcome = "cancelled" /\ pc = "push"
  /\ Issued("commit") # {} /\ Issued("push") = {}

(***************************************************************************)
(* C10: the operations of a run are issued in the stage order; of these    *)
(* operations only the read of the changes and the push are issued more    *)
(* than once (the push at most twice), and the inline discussions are one  *)
(* call for each selected comment, never two for the same comment.         *)
(***************************************************************************)
StageOrder ==
  <<"parseGitCheckRules", "createBranch", "stageAll", "generateCommitMessage",
    "commit", "push", "getProject", "listMergeRequests", "createMergeRequest",
    "getMergeRequestChanges", "reviewCode", "createMRNote",
    "createMRDiscussion">>

StageRank(name) == CHOOSE k \in DOMAIN StageOrder : StageOrder[k] = name

C10_StageOrder ==
  LET staged == SelectSeq(log, LAMBDA e : e.op \in Range(StageOrder))
      rank == [i \in DOMAIN staged |-> StageRank(staged[i].op)]
  IN /\ \A i \in DOMAIN rank : i > 1 => rank[i - 1] <= rank[i]
     /\ \A i \in DOMAIN rank :
          (i > 1 /\ rank[i - 1] = rank[i]) =>
            staged[i].op \in {"getMergeRequestChanges", "push",
                              "createMRDiscussion"}
     /\ Count("push") <= 2
     /\ \A k, l \in DOMAIN inline : inline[k].index = inline[l].index => k = l
     /\ Count("createMRDiscussion")
          = Cardinality({k \in DOMAIN inline : inline[k].result # "skipped"})

\* a completed run that went through every stage, with a push retry, a
\* poll and several discussions
C10_Witness ==
  /\ outcome = "completed"
  /\ \A k \in DOMAIN StageOrder : Count(StageOrder[k]) >= 1
  /\ Count("push") = 2
  /\ Count("getMergeRequestChanges") >= 2
  /\ Count("createMRDiscussion") >= 2

(***************************************************************************)
(* The rule extractor called on its own: parseGitCheckRules applied to     *)
(* every .gitlab-ci.yml of at most MaxLines lines, and to a missing one.   *)
(***************************************************************************)
CIFiles ==
  {NoCIFile}
    \cup {CIFile(content) : content \in UNION {[1..n -> CILines] : n \in 0..MaxLines}}

\* no command is running
NoCommand ==
  /\ pc = "none"
  /\ outcome = "none"
  /\ head = "main"
  /\ gitCheckRules = NoRules
  /\ currentBranch = None
  /\ branchToUse = None
  /\ ticketNumber = None
  /\ commitMessage = <<>>
  /\ cancelRequested = FALSE
  /\ mr = NoMR
  /\ changes = <<>>
  /\ retryCount = 0
  /\ review = NoReview
  /\ nextComment = 1
  /\ log = <<>>
  /\ inline = <<>>

ExtractorInit ==
  /\ NoCommand
  /\ NormalizerIdle
  /\ LaterIdle
  /\ ciFile \in CIFiles
  /\ parsePc = "call"
  /\ parseResult = ReadFailed

\* await parseGitCheckRules(workspaceRoot)
ParseRules ==
  /\ parsePc = "call"
  /\ parsePc' = "returned"
  /\ parseResult' = ParseResult(ciFile)
  /\ UNCHANGED ciFile
  /\ UNCHANGED <<commandVars, normalizerVars, laterVars>>

ExtractorNext == ParseRules

ExtractorSpec == ExtractorInit /\ [][ExtractorNext]_vars

\* the call returned for a file that could be read
Parsed == parsePc = "returned" /\ ciFile.readable

\* the text holds a line of one of these
Holds(lines) == \E i \in DOMAIN ciFile.content : ciFile.content[i] \in lines

\* the rule set of line 26: only hasGitCheck, which is false
ZeroValue(rules) ==
  /\ ~rules.hasGitCheck
  /\ rules.assigned = {"hasGitCheck"}
  /\ rules.branchNamePattern = None /\ rules.branchNameRegex = None
  /\ rules.commitMessagePattern = None /\ rules.commitMessageRegex = None
  /\ rules.allowedBranchTypes = {}
  /\ ~rules.requiresTicketNumber /\ ~rules.commitRequiresTicketNumber

(***************************************************************************)
(* C11: for a text without 'git-check' and without 'git_check' the         *)
(* extractor returns hasGitCheck = false and nothing else: no branch       *)
(* pattern or regex, no commit pattern or regex, no allowed types and no   *)
(* ticket flag, whatever the other lines are.                              *)
(***************************************************************************)
C11_NoMarkerNoRules ==
  (Parsed /\ ~Holds({MarkerLine, MarkerLine2})) =>
    (~parseResult.threw /\ ZeroValue(parseResult.rules))

\* a text without the marker that has a branch pattern and a commit pattern
C11_Witness ==
  /\ Parsed /\ ~Holds({MarkerLine, MarkerLine2})
  /\ Holds({BranchKeyLine}) /\ Holds({GrepLine})

(***************************************************************************)
(* C12: the extractor never throws; for a missing or unreadable file it    *)
(* returns the zero-value rule set.                                        *)
(***************************************************************************)
C12_NeverThrows ==
  parsePc = "returned" =>
    /\ ~parseResult.threw
    /\ ~ciFile.readable => ZeroValue(parseResult.rules)

\* the call returned for a missing file
C12_Witness == parsePc = "returned" /\ ~ciFile.readable /\ pc = "none"

(***************************************************************************)
(* C13, as claimed: in the returned rule set the branch pattern and the    *)
(* branch regex are both present or both absent, and so are the commit     *)
(* pattern and the commit regex.                                           *)
(***************************************************************************)
C13_PatternIffRegex ==
  parsePc = "returned" =>
    LET rules == parseResult.rules
    IN /\ (rules.branchNamePattern = None) <=> (rules.branchNameRegex = None)
       /\ (rules.commitMessagePattern = None) <=> (rules.commitMessageRegex = None)

(***************************************************************************)
(* C13, amended: a regex is present only together with its pattern, of     *)
(* which it is the compiled form; a pattern that is not a valid regular    *)
(* expression is kept as the pattern string while its regex is absent.     *)
(***************************************************************************)
Malformed == {UnterminatedBranchPattern, UnterminatedCommitPattern}

CompiledFrom(regex, pattern) ==
  /\ pattern # None /\ pattern \notin Malformed
  /\ regex \in {pattern, pattern \o "i"}

C13_RegexNeedsPattern ==
  parsePc = "returned" =>
    LET rules == parseResult.rules
    IN /\ rules.branchNameRegex # None =>
            CompiledFrom(rules.branchNameRegex, rules.branchNamePattern)
       /\ rules.commitMessageRegex # None =>
            CompiledFrom(rules.commitMessageRegex, rules.commitMessagePattern)
       /\ rules.branchNamePattern \in Malformed => rules.branchNameRegex = None
       /\ rules.commitMessagePattern \in Malformed =>
            rules.commitMessageRegex = None
       /\ (Parsed /\ Holds({MarkerLine, MarkerLine2})
             /\ ciFile.content[1] = BadBranchKeyLine) =>
            rules.branchNamePattern = UnterminatedBranchPattern
       /\ (Parsed /\ Holds({MarkerLine, MarkerLine2})
             /\ ciFile.content[1] = BadGrepLine) =>
            rules.commitMessagePattern = UnterminatedCommitPattern

\* a malformed branch pattern was extracted next to a well-formed commit
\* pattern
C13_Witness ==
  /\ parsePc = "returned"
  /\ parseResult.rules.branchNamePattern = UnterminatedBranchPattern
  /\ parseResult.rules.branchNameRegex = None
  /\ parseResult.rules.commitMessageRegex = CommitTicketPattern

(***************************************************************************)
(* C14, as claimed: for a text with the marker, without a branch pattern   *)
(* key and without a branch '=~' comparison, that holds one of the         *)
(* keywords feature, fix, ... the extractor yields the conventional        *)
(* fallback as branch pattern and branch regex.                            *)
(***************************************************************************)
C14_KeywordFallback ==
  (Parsed /\ Holds({MarkerLine, MarkerLine2})
     /\ ~Holds({BranchKeyLine, BadBranchKeyLine, BranchScriptLine})
     /\ Holds({KeywordLine})) =>
    /\ parseResult.rules.branchNamePattern = ConventionalBranchPattern
    /\ parseResult.rules.branchNameRegex = ConventionalBranchPattern \o "i"

(***************************************************************************)
(* C15: for a text with the marker in which no commit strategy matches (no *)
(* grep -E argument, no commit pattern key, no commit message comparison,  *)
(* no conventional-commit reference) the commit pattern and the commit     *)
(* regex are absent, the commit ticket flag is not set, and                *)
(* validateCommitMessage accepts every message.                            *)
(***************************************************************************)
C15_NoCommitDefault ==
  (Parsed /\ Holds({MarkerLine, MarkerLine2})
     /\ ~Holds({GrepLine, BadGrepLine, CommitKeyLine, CommitScriptLine,
                ConventionalCommitLine})) =>
    /\ parseResult.rules.hasGitCheck
    /\ parseResult.rules.commitMessagePattern = None
    /\ parseResult.rules.commitMessageRegex = None
    /\ ~parseResult.rules.commitRequiresTicketNumber
    /\ \A message \in GeneratedCommitMessages \cup {<<"wip">>, <<"">>} :
         validateCommitMessage(message, parseResult.rules)

\* a text with the marker and a branch pattern but no commit strategy
C15_Witness ==
  /\ Parsed /\ Holds({MarkerLine, MarkerLine2})
  /\ ~Holds({GrepLine, BadGrepLine, CommitKeyLine, CommitScriptLine,
             ConventionalCommitLine})
  /\ parseResult.rules.branchNameRegex = BranchTicketPattern

(***************************************************************************)
(* The generators called on their own: the clean-up code applied to        *)
(* answers of the LLM.  An answer is a payload (a branch name or a commit  *)
(* message as the model words it) behind a lead-in and inside a wrapper:   *)
(* the reasoning block, code fence, backticks and quotes that models put   *)
(* around what they were asked for.                                        *)
(***************************************************************************)
\* lead-ins
ThinkBlock ==
  <<"<", "t", "h", "i", "n", "k", ">", "o", "k">>
    \o <<"<", "/", "t", "h", "i", "n", "k", ">">>
ThinkBlockLine ==
  <<"<", "t", "h", "i", "n", "k", ">", "o", "k">>
    \o <<"<", "/", "t", "h", "i", "n", "k", ">", "\n">>
NoteBlock ==
  <<"<", "n", "o", "t", "e", ">", "x", "<", "/">>
    \o <<"n", "o", "t", "e", ">", " ">>
LeadIns == {<<>>, ThinkBlock, ThinkBlockLine, NoteBlock}

\* wrappers: what stands before and after the payload
Wrappers ==
  {[open |-> <<>>, close |-> <<>>],
   [open |-> <<Backtick>>, close |-> <<Backtick>>],
   [open |-> <<"\"">>, close |-> <<"\"">>],
   [open |-> <<"'">>, close |-> <<"'">>],
   [open |-> <<Backtick, Backtick, Backtick, "\n">>, close |-> <<"\n", Backtick, Backtick, Backtick>>],
   [open |-> <<"\"", "'">>, close |-> <<"'", "\"">>],
   [open |-> <<Backtick, Backtick>>, close |-> <<Backtick, Backtick>>]}

\* branch names as the model words them when a ticket is required
NameMixed ==
  <<"f", "e", "a", "t", "u", "r", "e", "/", "A">>
    \o <<"B", "C", "-", "1", "2", "3", "-", "A", "d">>
    \o <<"d", " ", "L", "o", "g", "i", "n">>
NameLower ==
  <<"f", "e", "a", "t", "u", "r", "e", "/", "a">>
    \o <<"b", "c", "-", "1", "2", "3", "-", "a", "d">>
    \o <<"d", "-", "l", "o", "g", "i", "n">>
NameLong ==
  <<"F", "i", "x", "/", "a", "b", "c", "-", "7">>
    \o <<"-", "N", "u", "l", "l", "_", "P", "o", "i">>
    \o <<"n", "t", "e", "r", " ", "f", "i", "x">>
TicketBranchPayloads == {NameMixed, NameLower, NameLong}
\* and when none is
NameNoTicket ==
  <<"f", "e", "a", "t", "u", "r", "e", "/", "A">>
    \o <<"d", "d", " ", "L", "o", "g", "i", "n">>
NameNoType == <<"A", "d", "d", " ", "L", "o", "g", "i", "n">>
BranchPayloads == TicketBranchPayloads \cup {NameNoTicket, NameNoType}

\* commit messages: type, scope, separator and description
CommitTypeTexts == {<<"f", "i", "x">>, <<"F", "e", "a", "t">>, <<"w", "i", "p">>}
CommitScopeTexts ==
  {<<>>, <<"(", "x", "y", "z", "-", "1", ")">>, <<"(", "A", "B", "C", "-", "1", "2", "3", ")">>,
   <<"(", "X", "Y", "Z", "-", "9", ")">>,
   <<"(", "u", "i", ")">>, <<"(", ")">>}
CommitSeparators == {<<":">>, <<":", " ">>}
CommitDescriptions == {<<"b", "u", "g">>, <<"a", "d", "d", " ", "l", "o", "g", "i", "n">>}
\* a body after the subject line
CommitBodies == {<<>>, <<"\n", "\n", "m", "o", "r", "e">>}
\* the ticketNumber argument: none, or a ticket
TicketArguments == {<<>>, <<"A", "B", "C", "-", "1", "2", "3">>, <<"a", "b", "c", "-", "1", "2", "3">>}

\* response.content for a payload
Wrapped(leadIn, wrapper, payload) ==
  leadIn \o wrapper.open \o payload \o wrapper.close

BranchAnswers ==
  {[kind |-> "branch", leadIn |-> l, wrapper |-> w, payload |-> p,
    type |-> <<>>, scope |-> <<>>, description |-> <<>>, body |-> <<>>,
    ticket |-> <<>>, content |-> Wrapped(l, w, p)] :
     l \in LeadIns, w \in Wrappers, p \in BranchPayloads}

CommitAnswers ==
  {[kind |-> "commit", leadIn |-> l, wrapper |-> w,
    payload |-> x[1] \o x[2] \o x[3] \o x[4] \o x[5],
    type |-> x[1], scope |-> x[2], description |-> x[4], body |-> x[5],
    ticket |-> t,
    content |-> Wrapped(l, w, x[1] \o x[2] \o x[3] \o x[4] \o x[5])] :
     l \in LeadIns, w \in Wrappers, t \in TicketArguments,
     x \in CommitTypeTexts \X CommitScopeTexts \X CommitSeparators
             \X CommitDescriptions \X CommitBodies}

NormalizerInit ==
  /\ NoCommand
  /\ ExtractorIdle
  /\ LaterIdle
  /\ answer \in BranchAnswers \cup CommitAnswers
  /\ normPc = "call"
  /\ normalized = <<>>
  /\ renormalized = <<>>

\* lines 259-315 applied to the answer
NormalizeBranchName ==
  /\ normPc = "call" /\ answer.kind = "branch"
  /\ normalized' = generateBranchNameWithRules(answer.content)
  /\ normPc' = "returned"
  /\ UNCHANGED <<answer, renormalized>>
  /\ UNCHANGED <<commandVars, extractorVars, laterVars>>

\* lines 170-221 applied to the answer
NormalizeCommitMessage ==
  /\ normPc = "call" /\ answer.kind = "commit"
  /\ normalized' = generateCommitMessageWithRules(answer.content, answer.ticket)
  /\ normPc' = "returned"
  /\ UNCHANGED <<answer, renormalized>>
  /\ UNCHANGED <<commandVars, extractorVars, laterVars>>

\* the same code applied to what it returned
NormalizeAgain ==
  /\ normPc = "returned" /\ answer.kind \in {"branch", "commit"}
  /\ renormalized' =
       IF answer.kind = "branch" THEN generateBranchNameWithRules(normalized)
       ELSE generateCommitMessageWithRules(normalized, answer.ticket)
  /\ normPc' = "again"
  /\ UNCHANGED <<answer, normalized>>
  /\ UNCHANGED <<commandVars, extractorVars, laterVars>>

NormalizerNext ==
  NormalizeBranchName \/ NormalizeCommitMessage \/ NormalizeAgain

NormalizerSpec == NormalizerInit /\ [][NormalizerNext]_vars

\* the answer carries a reasoning block, a tag block, a code fence, backticks
\* or quotes
HasArtifacts(a) == a.leadIn # <<>> \/ a.wrapper.open # <<>>

\* the text holds a character of a tag, a backtick or a quote
HoldsArtifact(s) ==
  \E i \in DOMAIN s : s[i] \in {"<", ">", Backtick, "\"", "'"}

\* /^[a-z]+\/[A-Z]+-[0-9]+-[a-z0-9-]+$/.test(s), the case being significant
StrictBranchName(s) ==
  LET shape == TicketShape(s)
  IN /\ shape.typeEnd # 0
     /\ \A i \in 1..shape.typeEnd : IsLower(s[i])
     /\ \A i \in (shape.typeEnd + 2)..shape.numberEnd : ~IsLower(s[i])
     /\ \A i \in (shape.numberEnd + 2)..Len(s) : IsNameChar(s[i])

(***************************************************************************)
(* C16, as claimed: for an answer that carries a reasoning block, a tag    *)
(* block, fenced code, backticks or quotes around a branch name with a     *)
(* ticket, the branch name returned holds none of these and matches        *)
(* ^[a-z]+/[A-Z]+-[0-9]+-[a-z0-9-]+$.                                      *)
(***************************************************************************)
C16_ArtifactsRemoved ==
  (normPc = "returned" /\ answer.kind = "branch" /\ HasArtifacts(answer)
     /\ answer.payload \in TicketBranchPayloads) =>
    (~HoldsArtifact(normalized) /\ StrictBranchName(normalized))

(***************************************************************************)
(* C17, as claimed: the clean-up of a generator applied to what it         *)
(* returned returns it unchanged, for branch names and for commit          *)
(* messages, for every answer and ticket.                                  *)
(***************************************************************************)
C17_Idempotent == normPc = "again" => renormalized = normalized

(***************************************************************************)
(* C18: for a ticket and a one-line answer type(scope): description or     *)
(* type: description whose type is a conventional one, the commit message  *)
(* returned is type(TICKET): description with the type in lower case and   *)
(* the ticket in upper case, whatever the scope was.                       *)
(***************************************************************************)
PlainMessage(a) ==
  /\ a.kind = "commit" /\ a.leadIn = <<>> /\ a.wrapper.open = <<>>
  /\ a.body = <<>>
  /\ lower(a.type) \in ConventionalTypes

DefaultGrammarNames == {"feature/ABC-12-login"}
DefaultGrammarSubjects == {"feat(ABC-12): add login"}

workflowVars == <<commitMessage, cancelRequested, mr, changes, retryCount,
                  review, nextComment, inline>>

\* what the input box of commitChangesCommand lines 279-282 returns: it has no
\* validateInput, so any text, or dismissal
FreeTicketInputs == TicketInputs \cup {"", "12"}

\* part_005 lines 229-232, part_004 lines 257-260
CommandIsGitRepository(step, nextPc) ==
  /\ Running /\ pc = step
  /\ \E isRepo \in BOOLEAN :
       IF isRepo
       THEN Goto(nextPc, <<Op("isGitRepository", "")>>)
       ELSE End("blocked", <<Op("isGitRepository", "")>>)
  /\ UNCHANGED <<head, gitCheckRules, currentBranch, branchToUse, ticketNumber>>
  /\ UNCHANGED workflowVars

\* part_005 line 249, part_004 lines 272 and 312
CommandParseRules(step, nextPc) ==
  /\ Running /\ pc = step
  /\ \E file \in WorkspaceCIFiles : gitCheckRules' = parseGitCheckRules(file)
  /\ Goto(nextPc, <<Op("parseGitCheckRules", "")>>)
  /\ UNCHANGED <<head, currentBranch, branchToUse, ticketNumber>>
  /\ UNCHANGED workflowVars

\* part_005 lines 261-280 and part_004 lines 366-383: the validated input box
CommandAskTicket(step, nextPc) ==
  /\ Running /\ pc = step
  /\ \E input \in TicketInputs :
       ticketNumber' = toUpperCase(IF input = None THEN "TASK-001" ELSE input)
  /\ Goto(nextPc, <<Op("askTicket", "")>>)
  /\ UNCHANGED <<head, gitCheckRules, currentBranch, branchToUse>>
  /\ UNCHANGED workflowVars

(***************************************************************************)
(* createBranchCommand                                                     *)
(***************************************************************************)
CBEntry == CommandEntry("branch.entry", "branch.isRepo")

CBIsGitRepository == CommandIsGitRepository("branch.isRepo", "branch.currentBranch")

\* lines 236-246: off a protected branch the user is asked first
CBGetCurrentBranch ==
  /\ Running /\ pc = "branch.currentBranch"
  /\ \E ok \in BOOLEAN,
        switchBranch \in {"Create New Branch", "Stay on Current", None} :
       IF ~ok
       THEN /\ End("failed", <<OpFailed("getCurrentBranch", "")>>)
            /\ UNCHANGED currentBranch
       ELSE /\ currentBranch' = head
            /\ IF isProtectedBranch(head) \/ switchBranch = "Create New Branch"
               THEN Goto("branch.rules", <<Op("getCurrentBranch", "")>>)
               ELSE End("declined", <<Op("getCurrentBranch", "")>>)
  /\ UNCHANGED <<head, gitCheckRules, branchToUse, ticketNumber>>
  /\ UNCHANGED workflowVars

CBParseGitCheckRules == CommandParseRules("branch.rules", "branch.allDiff")

\* lines 252-257
CBGetAllDiff ==
  /\ Running /\ pc = "branch.allDiff"
  /\ \E result \in {"changes", "empty", "error"} :
       CASE result = "changes" ->
              Goto(IF gitCheckRules.requiresTicketNumber
                   THEN "branch.ticket" ELSE "branch.generate",
                   <<Op("getAllDiff", "")>>)
         [] result = "empty" -> End("nochanges", <<Op("getAllDiff", "")>>)
         [] result = "error" -> End("failed", <<OpFailed("getAllDiff", "")>>)
  /\ UNCHANGED <<head, gitCheckRules, currentBranch, branchToUse, ticketNumber>>
  /\ UNCHANGED workflowVars

CBAskTicket == CommandAskTicket("branch.ticket", "branch.generate")

\* lines 283-297: the LLM call, then the validation of its result
CBGenerateBranchName ==
  /\ Running /\ pc = "branch.generate"
  /\ \/ /\ End("failed", <<OpFailed("generateBranchName", "")>>)
        /\ UNCHANGED branchToUse
     \/ \E branchName \in GeneratedBranchNames :
          IF validateBranchName(branchName, gitCheckRules)
          THEN /\ branchToUse' = branchName
               /\ Goto("branch.branches", <<Op("generateBranchName", "")>>)
          ELSE /\ End("invalid", <<Op("generateBranchName", "")>>)
               /\ UNCHANGED branchToUse
  /\ UNCHANGED <<head, gitCheckRules, currentBranch, ticketNumber>>
  /\ UNCHANGED workflowVars

\* lines 300-312: a branch of that name is switched to, not created
CBGetBranches ==
  /\ Running /\ pc = "branch.branches"
  /\ \E result \in {"absent", "exists", "error"},
        checkout \in {"Yes", "No", None}, ok \in BOOLEAN :
       CASE result = "error" ->
              /\ End("failed", <<OpFailed("getBranches", "")>>)
              /\ UNCHANGED head
         [] result = "absent" ->
              /\ Goto("branch.create", <<Op("getBranches", "")>>)
              /\ UNCHANGED head
         [] result = "exists" /\ checkout # "Yes" ->
              /\ End("declined", <<Op("getBranches", "")>>)
              /\ UNCHANGED head
         [] result = "exists" /\ checkout = "Yes" /\ ok ->
              /\ head' = branchToUse
              /\ End("switched", <<Op("getBranches", ""),
                                   Op("checkoutBranch", branchToUse)>>)
         [] result = "exists" /\ checkout = "Yes" /\ ~ok ->
              /\ End("failed", <<Op("getBranches", ""),
                                 OpFailed("checkoutBranch", branchToUse)>>)
              /\ UNCHANGED head
  /\ UNCHANGED <<gitCheckRules, currentBranch, branchToUse, ticketNumber>>
  /\ UNCHANGED workflowVars

\* line 315
CBCreateBranch ==
  /\ Running /\ pc = "branch.create"
  /\ \E ok \in BOOLEAN :
       IF ok
       THEN /\ head' = branchToUse
            /\ End("done", <<Op("createBranch", branchToUse)>>)
       ELSE /\ End("failed", <<OpFailed("createBranch", branchToUse)>>)
            /\ UNCHANGED head
  /\ UNCHANGED <<gitCheckRules, currentBranch, branchToUse, ticketNumber>>
  /\ UNCHANGED workflowVars

createBranchCommand ==
  \/ CBEntry \/ CBIsGitRepository \/ CBGetCurrentBranch
  \/ CBParseGitCheckRules \/ CBGetAllDiff \/ CBAskTicket
  \/ CBGenerateBranchName \/ CBGetBranches \/ CBCreateBranch

(***************************************************************************)
(* commitChangesCommand                                                    *)
(***************************************************************************)
CCEntry == CommandEntry("commit.entry", "commit.isRepo")

CCIsGitRepository == CommandIsGitRepository("commit.isRepo", "commit.currentBranch")

\* lines 264-265
CCGetCurrentBranch ==
  /\ Running /\ pc = "commit.currentBranch"
  /\ \E ok \in BOOLEAN :
       IF ok
       THEN /\ currentBranch' = head
            /\ Goto(IF isProtectedBranch(head)
                    THEN "commit.offerBranch" ELSE "commit.status",
                    <<Op("getCurrentBranch", "")>>)
       ELSE /\ End("failed", <<OpFailed("getCurrentBranch", "")>>)
            /\ UNCHANGED currentBranch
  /\ UNCHANGED <<head, gitCheckRules, branchToUse, ticketNumber>>
  /\ UNCHANGED workflowVars

\* lines 266-270 and 294: the refusal, with the offer to create a branch
CCOfferBranch ==
  /\ Running /\ pc = "commit.offerBranch"
  /\ \E createBranch \in {"Create Branch", None} :
       IF createBranch = "Create Branch"
       THEN Goto("commit.branchRules", <<Op("offerBranch", "")>>)
       ELSE End("refused", <<Op("offerBranch", "")>>)
  /\ UNCHANGED <<head, gitCheckRules, currentBranch, branchToUse, ticketNumber>>
  /\ UNCHANGED workflowVars

CCParseBranchRules == CommandParseRules("commit.branchRules", "commit.allDiff")

\* lines 273-275 and 292-294: without changes the command returns
CCGetAllDiff ==
  /\ Running /\ pc = "commit.allDiff"
  /\ \E result \in {"changes", "empty", "error"} :
       CASE result = "changes" ->
              Goto(IF gitCheckRules.requiresTicketNumber
                   THEN "commit.branchTicket" ELSE "commit.generateBranch",
                   <<Op("getAllDiff", "")>>)
         [] result = "empty" -> End("refused", <<Op("getAllDiff", "")>>)
         [] result = "error" -> End("failed", <<OpFailed("getAllDiff", "")>>)
  /\ UNCHANGED <<head, gitCheckRules, currentBranch, branchToUse, ticketNumber>>
  /\ UNCHANGED workflowVars

\* lines 277-284: ticketNumber?.toUpperCase() || 'TASK-001'
CCAskBranchTicket ==
  /\ Running /\ pc = "commit.branchTicket"
  /\ \E input \in FreeTicketInputs :
       ticketNumber' = IF input \in {None, ""} THEN "TASK-001"
                       ELSE toUpperCase(input)
  /\ Goto("commit.generateBranch", <<Op("askTicket", "")>>)
  /\ UNCHANGED <<head, gitCheckRules, currentBranch, branchToUse>>
  /\ UNCHANGED workflowVars

\* lines 286-288: the LLM call; its result goes to createBranch as it is
CCGenerateBranchName ==
  /\ Running /\ pc = "commit.generateBranch"
  /\ \/ /\ End("failed", <<OpFailed("generateBranchName", "")>>)
        /\ UNCHANGED branchToUse
     \/ \E branchName \in GeneratedBranchNames :
          /\ branchToUse' = branchName
          /\ Goto("commit.createBranch", <<Op("generateBranchName", "")>>)
  /\ UNCHANGED <<head, gitCheckRules, currentBranch, ticketNumber>>
  /\ UNCHANGED workflowVars

\* lines 289-294: the branch is created and the command returns
CCCreateBranch ==
  /\ Running /\ pc = "commit.createBranch"
  /\ \E ok \in BOOLEAN :
       IF ok
       THEN /\ head' = branchToUse
            /\ End("refused", <<Op("createBranch", branchToUse)>>)
       ELSE /\ End("failed", <<OpFailed("createBranch", branchToUse)>>)
            /\ UNCHANGED head
  /\ UNCHANGED <<gitCheckRules, currentBranch, branchToUse, ticketNumber>>
  /\ UNCHANGED workflowVars

\* lines 297-309
CCGetStatus ==
  /\ Running /\ pc = "commit.status"
  /\ \E result \in {"changes", "clean", "error"} :
       CASE result = "changes" -> Goto("commit.rules", <<Op("getStatus", "")>>)
         [] result = "clean" -> End("nochanges", <<Op("getStatus", "")>>)
         [] result = "error" -> End("failed", <<OpFailed("getStatus", "")>>)
  /\ UNCHANGED <<head, gitCheckRules, currentBranch, branchToUse, ticketNumber>>
  /\ UNCHANGED workflowVars

CCParseGitCheckRules == CommandParseRules("commit.rules", "commit.stage")

\* lines 315-355: all changes, the files picked, or what is staged already
CCStage ==
  /\ Running /\ pc = "commit.stage"
  /\ \E stageOption \in {"all", "staged", "select", None},
        some \in BOOLEAN, ok \in BOOLEAN :
       CASE stageOption = None -> End("declined", <<>>)
         [] stageOption = "all" /\ ok ->
              Goto("commit.stagedDiff", <<Op("stageAll", "")>>)
         [] stageOption = "all" /\ ~ok ->
              End("failed", <<OpFailed("stageAll", "")>>)
         [] stageOption = "select" /\ ~some -> End("declined", <<>>)
         [] stageOption = "select" /\ some /\ ok ->
              Goto("commit.stagedDiff", <<Op("stageFiles", "")>>)
         [] stageOption = "select" /\ some /\ ~ok ->
              End("failed", <<OpFailed("stageFiles", "")>>)
         [] stageOption = "staged" /\ ~some -> End("nochanges", <<>>)
         [] stageOption = "staged" /\ some -> Goto("commit.stagedDiff", <<>>)
  /\ UNCHANGED <<head, gitCheckRules, currentBranch, branchToUse, ticketNumber>>
  /\ UNCHANGED workflowVars

\* lines 358-363
CCGetStagedDiff ==
  /\ Running /\ pc = "commit.stagedDiff"
  /\ \E result \in {"changes", "empty", "error"} :
       CASE result = "changes" ->
              Goto(IF gitCheckRules.commitRequiresTicketNumber
                        \/ gitCheckRules.requiresTicketNumber
                   THEN "commit.ticket" ELSE "commit.generate",
                   <<Op("getStagedDiff", "")>>)
         [] result = "empty" -> End("nochanges", <<Op("getStagedDiff", "")>>)
         [] result = "error" -> End("failed", <<OpFailed("getStagedDiff", "")>>)
  /\ UNCHANGED <<head, gitCheckRules, currentBranch, branchToUse, ticketNumber>>
  /\ UNCHANGED workflowVars

CCAskTicket == CommandAskTicket("commit.ticket", "commit.generate")

\* lines 386-403: the LLM call, then the validation of its result
CCGenerateCommitMessage ==
  /\ Running /\ pc = "commit.generate"
  /\ \/ /\ End("failed", <<OpFailed("generateCommitMessage", "")>>)
        /\ UNCHANGED commitMessage
     \/ \E message \in GeneratedCommitMessages :
          /\ commitMessage' = message
          /\ IF validateCommitMessage(message, gitCheckRules)
             THEN Goto("commit.confirm", <<Op("generateCommitMessage", "")>>)
             ELSE End("invalid", <<Op("generateCommitMessage", "")>>)
  /\ UNCHANGED <<head, gitCheckRules, currentBranch, branchToUse, ticketNumber,
                 cancelRequested, mr, changes, retryCount, review,
                 nextComment, inline>>

\* lines 406-414
CCConfirm ==
  /\ Running /\ pc = "commit.confirm"
  /\ \E confirmCommit \in {"Commit", "Cancel", None} :
       IF confirmCommit = "Commit"
       THEN Goto("commit.commit", <<Op("confirmCommit", "")>>)
       ELSE End("declined", <<Op("confirmCommit", "")>>)
  /\ UNCHANGED <<head, gitCheckRules, currentBranch, branchToUse, ticketNumber>>
  /\ UNCHANGED workflowVars

\* line 417: the commit lands on the checked-out branch
CCCommit ==
  /\ Running /\ pc = "commit.commit"
  /\ \E ok \in BOOLEAN :
       IF ok THEN End("done", <<Op("commit", head)>>)
       ELSE End("failed", <<OpFailed("commit", head)>>)
  /\ UNCHANGED <<head, gitCheckRules, currentBranch, branchToUse, ticketNumber>>
  /\ UNCHANGED workflowVars

commitChangesCommand ==
  \/ CCEntry \/ CCIsGitRepository \/ CCGetCurrentBranch
  \/ CCOfferBranch \/ CCParseBranchRules \/ CCGetAllDiff
  \/ CCAskBranchTicket \/ CCGenerateBranchName \/ CCCreateBranch
  \/ CCGetStatus \/ CCParseGitCheckRules \/ CCStage \/ CCGetStagedDiff
  \/ CCAskTicket \/ CCGenerateCommitMessage \/ CCConfirm \/ CCCommit

(***************************************************************************)
(* The target-branch selector (llmService.ts lines 531-644) called on its  *)
(* own: selectTargetBranch with an answer of the LLM, and its fallback.    *)
(***************************************************************************)
\* const priorityOrder (line 627) in the order of getDefaultBranch
priorityOrder_MainFirst == <<"main", "master", "develop", "development", "dev">>

\* const priorityOrder (line 627)
priorityOrder == <<"develop", "development", "dev", "main", "master">>

\* branch names of a repository
BranchNames == Range(priorityOrder) \cup {"staging", "trunk"}

\* availableBranches: the local branches, at most MaxBranches of them
AvailableBranchSets ==
  {S \in SUBSET (BranchNames \ {"trunk"}) : Cardinality(S) <= MaxBranches}

\* defaultBranch: what getDefaultBranch gave, a local branch or not
SelectorDefaultBranches == {"main", "staging", "trunk"}

\* the JSON texts the LLM answers with and what JSON.parse makes of them:
\* an object with or without its fields, null, a number, or no JSON at all
JsonBodies ==
  {[json |-> "object", targetBranch |-> b, confidence |-> c] :
     b \in BranchNames \cup {None}, c \in {"high", "medium", "low", "certain", None}}
  \cup {[json |-> "null"], [json |-> "number"], [json |-> "invalid"]}

\* what stands around the JSON text: nothing, a reasoning block before it, a
\* code fence, a sentence before it, or a sentence with braces after it
JsonWrappers == {"none", "think", "fence", "sentence", "braces"}

\* the answers of this.chat: the call throws, or response.content
SelectorResponses ==
  {[failed |-> TRUE]}
  \cup {[failed |-> FALSE, wrapper |-> w, body |-> b] :
          w \in JsonWrappers, b \in JsonBodies}

\* lines 589-601: the reasoning block is removed, and the text from the first
\* { to the last } is parsed when there is one, else the whole text.  The
\* result is what JSON.parse returns, or that it throws.
ParseSelection(response) ==
  LET body == response.body
      isObject == body.json = "object"
      \* the text handed to JSON.parse is the JSON text itself
      exact == CASE response.wrapper \in {"none", "think"} -> TRUE
                 [] response.wrapper \in {"fence", "sentence"} -> isObject
                 [] response.wrapper = "braces" -> FALSE
  IN IF ~exact \/ body.json = "invalid"
     THEN [threw |-> TRUE]
     ELSE [threw |-> FALSE, value |-> body]

\* availableBranches.includes(result.targetBranch) with the test lost
IsAvailable_Unchecked(availableBranches, branch) == TRUE

\* availableBranches.includes(result.targetBranch) (line 604)
IsAvailable(availableBranches, branch) == branch \in availableBranches

\* lines 623-644; the loop of line 629 from position i on
RECURSIVE fallbackFrom(_, _, _)
fallbackFrom(i, availableBranches, defaultBranch) ==
  IF i > Len(priorityOrder)
  THEN [targetBranch |-> defaultBranch, confidence |-> "low",
        reasoning |-> "default"]
  ELSE IF priorityOrder[i] \in availableBranches
  THEN [targetBranch |-> priorityOrder[i], confidence |-> "medium",
        reasoning |-> "priority"]
  ELSE fallbackFrom(i + 1, availableBranches, defaultBranch)

fallbackTargetBranch(availableBranches, defaultBranch) ==
  fallbackFrom(1, availableBranches, defaultBranch)

\* lines 582-618: reading .targetBranch of null throws, of a number gives
\* undefined; every throw ends in the catch of line 614
selectTargetBranch(availableBranches, defaultBranch, response) ==
  IF response.failed
  THEN fallbackTargetBranch(availableBranches, defaultBranch)
  ELSE LET parsed == ParseSelection(response)
       IN IF parsed.threw \/ parsed.value.json = "null"
          THEN fallbackTargetBranch(availableBranches, defaultBranch)
          ELSE LET result == IF parsed.value.json = "object" THEN parsed.value
                             ELSE [targetBranch |-> None, confidence |-> None]
               IN IF ~IsAvailable(availableBranches, result.targetBranch)
                  THEN fallbackTargetBranch(availableBranches, defaultBranch)
                  ELSE [targetBranch |-> result.targetBranch,
                        confidence |-> IF result.confidence = None
                                       THEN "medium" ELSE result.confidence,
                        reasoning |-> "model"]

SelectorInit ==
  /\ NoCommand
  /\ ExtractorIdle
  /\ NormalizerIdle
  /\ selectorArgs \in
       [availableBranches : AvailableBranchSets,
        defaultBranch : SelectorDefaultBranches,
        response : SelectorResponses]
  /\ selectorPc = "call"
  /\ selectorResult = None
  /\ targetBranch = None
  /\ config = UnsetConfig
  /\ RaceIdle

SelectTargetBranch ==
  /\ selectorPc = "call"
  /\ selectorResult' = selectTargetBranch(selectorArgs.availableBranches,
                                          selectorArgs.defaultBranch,
                                          selectorArgs.response)
  /\ selectorPc' = "selected"
  /\ UNCHANGED <<selectorArgs, targetBranch, config, raceVars>>
  /\ UNCHANGED <<commandVars, extractorVars, normalizerVars>>

FallbackTargetBranch ==
  /\ selectorPc = "call"
  /\ selectorResult' = fallbackTargetBranch(selectorArgs.availableBranches,
                                            selectorArgs.defaultBranch)
  /\ selectorPc' = "fellBack"
  /\ UNCHANGED <<selectorArgs, targetBranch, config, raceVars>>
  /\ UNCHANGED <<commandVars, extractorVars, normalizerVars>>

SelectorNext == SelectTargetBranch \/ FallbackTargetBranch

SelectorSpec == SelectorInit /\ [][SelectorNext]_vars

(***************************************************************************)
(* C21: whatever the LLM answers (the call fails, no JSON, JSON that is no *)
(* object, an object that names no branch or a branch that is not          *)
(* available), the target returned by selectTargetBranch is an available   *)
(* branch or the default branch, and it is an available branch whenever    *)
(* one of develop, development, dev, main, master is available.            *)
(***************************************************************************)
PriorityNames == {"develop", "development", "dev", "main", "master"}

C21_TargetIsAvailable ==
  selectorPc = "selected" =>
    LET available == selectorArgs.availableBranches
        target == selectorResult.targetBranch
    IN /\ target \in available \cup {selectorArgs.defaultBranch}
       /\ available \cap PriorityNames # {} => target \in available

\* the answer names staging, which is not among main and develop: develop is
\* returned with confidence medium
C21_Witness ==
  /\ selectorPc = "selected"
  /\ selectorArgs.availableBranches = {"main", "develop"}
  /\ selectorArgs.defaultBranch = "main"
  /\ ~selectorArgs.response.failed
  /\ selectorArgs.response.body.json = "object"
  /\ selectorArgs.response.body.targetBranch = "staging"
  /\ selectorResult.targetBranch = "develop"
  /\ selectorResult.confidence = "medium"

(***************************************************************************)
(* C22: fallbackTargetBranch returns the first of develop, development,    *)
(* dev, main, master that is available, with confidence medium, and the    *)
(* default branch with confidence low when none of them is available,      *)
(* whether the default branch is available or not.                         *)
(***************************************************************************)
\* develop > development > dev > main > master
PriorityRank(b) ==
  CASE b = "develop" -> 1 [] b = "development" -> 2 [] b = "dev" -> 3
    [] b = "main" -> 4 [] b = "master" -> 5

C22_FallbackOrder ==
  selectorPc = "fellBack" =>
    LET hits == selectorArgs.availableBranches \cap PriorityNames
    IN IF hits # {}
       THEN /\ selectorResult.targetBranch \in hits
            /\ \A b \in hits :
                 PriorityRank(selectorResult.targetBranch) <= PriorityRank(b)
            /\ selectorResult.confidence = "medium"
       ELSE /\ selectorResult.targetBranch = selectorArgs.defaultBranch
            /\ selectorResult.confidence = "low"

\* both cases: main and dev are available and dev is returned; at another
\* time only staging is, and the default branch, which is not available, is
C22_Witness ==
  /\ selectorPc = "fellBack"
  /\ \/ /\ selectorArgs.availableBranches = {"main", "dev", "staging"}
        /\ selectorResult.targetBranch = "dev"
     \/ /\ selectorArgs.availableBranches = {"staging"}
        /\ selectorArgs.defaultBranch = "trunk"
        /\ selectorResult.targetBranch = "trunk"

(***************************************************************************)
(* pushAndCreateMRCommand (src/src/commands/pushAndCreateMR.ts lines       *)
(* 10-248): its steps are the pc values that start with "push.".           *)
(***************************************************************************)
\* an awaited call that returns, or throws into the catch of line 245
CommandCall(step, nextPc, name) ==
  /\ Running /\ pc = step
  /\ \E ok \in BOOLEAN :
       IF ok THEN Goto(nextPc, <<Op(name, "")>>)
       ELSE End("failed", <<OpFailed(name, "")>>)
  /\ UNCHANGED <<head, gitCheckRules, currentBranch, branchToUse, ticketNumber>>
  /\ UNCHANGED workflowVars

PMEntry == CommandEntry("push.entry", "push.isRepo")

PMIsGitRepository == CommandIsGitRepository("push.isRepo", "push.currentBranch")

\* lines 34-42: a protected branch is never pushed
PMGetCurrentBranch ==
  /\ Running /\ pc = "push.currentBranch"
  /\ \E ok \in BOOLEAN :
       IF ok
       THEN /\ currentBranch' = head
            /\ IF isProtectedBranch(head)
               THEN End("refused", <<Op("getCurrentBranch", "")>>)
               ELSE Goto("push.remote", <<Op("getCurrentBranch", "")>>)
       ELSE /\ End("failed", <<OpFailed("getCurrentBranch", "")>>)
            /\ UNCHANGED currentBranch
  /\ UNCHANGED <<head, gitCheckRules, branchToUse, ticketNumber>>
  /\ UNCHANGED workflowVars

\* lines 45-55: without a GitLab remote the command returns
PMGetRemoteUrl ==
  /\ Running /\ pc = "push.remote"
  /\ \E remoteUrl \in {"gitlab", None, "unparsable"} :
       IF remoteUrl = "gitlab"
       THEN Goto("push.push", <<Op("getRemoteUrl", "")>>)
       ELSE End("blocked", <<Op("getRemoteUrl", "")>>)
  /\ UNCHANGED <<head, gitCheckRules, currentBranch, branchToUse, ticketNumber>>
  /\ UNCHANGED workflowVars

\* lines 65-67: push with --set-upstream
PMPush ==
  /\ Running /\ pc = "push.push"
  /\ \E ok \in BOOLEAN :
       IF ok THEN Goto("push.project", <<Op("push", "--set-upstream")>>)
       ELSE Goto("push.pushRetry", <<OpFailed("push", "--set-upstream")>>)
  /\ UNCHANGED <<head, gitCheckRules, currentBranch, branchToUse, ticketNumber>>
  /\ UNCHANGED workflowVars

\* line 69: then once without
PMPushRetry ==
  /\ Running /\ pc = "push.pushRetry"
  /\ \E ok \in BOOLEAN :
       IF ok THEN Goto("push.project", <<Op("push", "")>>)
       ELSE End("failed", <<OpFailed("push", "")>>)
  /\ UNCHANGED <<head, gitCheckRules, currentBranch, branchToUse, ticketNumber>>
  /\ UNCHANGED workflowVars

\* line 76
PMGetProject == CommandCall("push.project", "push.listMR", "getProject")

\* lines 79-100: with an open merge request the command creates none
PMListMergeRequests ==
  /\ Running /\ pc = "push.listMR"
  /\ \/ End("failed", <<OpFailed("listMergeRequests", "")>>)
     \/ \E existingMRs \in ExistingMRLists :
          IF HasOpenMR(existingMRs)
          THEN End("existing", <<Op("listMergeRequests", "existing")>>)
          ELSE Goto("push.branches", <<Op("listMergeRequests", "none")>>)
  /\ UNCHANGED <<head, gitCheckRules, currentBranch, branchToUse, ticketNumber>>
  /\ UNCHANGED workflowVars

\* lines 106-116: the local branches and the default branch; the list of
\* recent merge requests is read in a try of its own
PMGetBranches == CommandCall("push.branches", "push.target", "getBranches")

\* const localBranches and const defaultBranch (lines 106-107)
PMLocalBranchSets == {{"main", "develop"}, {"staging"}, {}}
PMDefaultBranches == {"main", "trunk"}

\* answers of the LLM to selectTargetBranch
PMResponses ==
  {[failed |-> TRUE],
   [failed |-> FALSE, wrapper |-> "none",
    body |-> [json |-> "object", targetBranch |-> "develop",
              confidence |-> "high"]],
   [failed |-> FALSE, wrapper |-> "fence",
    body |-> [json |-> "object", targetBranch |-> "staging",
              confidence |-> "low"]],
   [failed |-> FALSE, wrapper |-> "none",
    body |-> [json |-> "object", targetBranch |-> "main",
              confidence |-> None]]}

\* line 135: branchSelection.confidence === 'low'
NeedsConfirmation(branchSelection) == branchSelection.confidence = "low"

\* lines 118-151: the configured target branch, or the selection of the LLM,
\* which the user confirms in a quick pick when its confidence is low; a
\* dismissed quick pick ends the command
PMSelectTarget ==
  /\ Running /\ pc = "push.target"
  /\ \E defaultTargetBranch \in DefaultTargetBranches :
       IF defaultTargetBranch # ""
       THEN /\ targetBranch' = defaultTargetBranch
            /\ Move("push.commits", "running", <<>>)
       ELSE \E localBranches \in PMLocalBranchSets,
               defaultBranch \in PMDefaultBranches,
               response \in PMResponses :
              LET branchSelection ==
                    selectTargetBranch(localBranches, defaultBranch, response)
                  selected == Op("selectTargetBranch", branchSelection.confidence)
              IN IF NeedsConfirmation(branchSelection)
                 THEN \E selectedBranch \in localBranches \cup {None} :
                        IF selectedBranch = None
                        THEN /\ targetBranch' = branchSelection.targetBranch
                             /\ Move(pc, "declined", <<selected>>)
                        ELSE /\ targetBranch' = selectedBranch
                             /\ Move("push.commits", "running",
                                     <<selected,
                                       Op("confirmTargetBranch", selectedBranch)>>)
                 ELSE /\ targetBranch' = branchSelection.targetBranch
                      /\ Move("push.commits", "running", <<selected>>)
  /\ UNCHANGED <<head, gitCheckRules, currentBranch, branchToUse, ticketNumber,
                 config>>
  /\ UNCHANGED workflowVars

\* lines 156-157
PMGetCommitsBetween ==
  CommandCall("push.commits", "push.branchDiff", "getCommitsBetween")

PMGetDiffWithBranch ==
  CommandCall("push.branchDiff", "push.describeMR", "getDiffWithBranch")

\* lines 159-174: the template read never fails the command
PMGenerateMRDescription ==
  CommandCall("push.describeMR", "push.title", "generateMRDescription")

\* lines 179-187
PMAskTitle ==
  /\ Running /\ pc = "push.title"
  /\ \E finalTitle \in {"Add login", None} :
       IF finalTitle # None
       THEN Goto("push.description", <<Op("askTitle", "")>>)
       ELSE End("declined", <<Op("askTitle", "")>>)
  /\ UNCHANGED <<head, gitCheckRules, currentBranch, branchToUse, ticketNumber>>
  /\ UNCHANGED workflowVars

\* lines 190-213: the description is shown for editing
PMConfirmDescription ==
  /\ Running /\ pc = "push.description"
  /\ \E confirmed \in {"Create MR", "Cancel", None} :
       IF confirmed = "Create MR"
       THEN Goto("push.createMR", <<Op("confirmDescription", "")>>)
       ELSE End("declined", <<Op("confirmDescription", "")>>)
  /\ UNCHANGED <<head, gitCheckRules, currentBranch, branchToUse, ticketNumber>>
  /\ UNCHANGED workflowVars

\* lines 218-243: the merge request, then the closing message
PMCreateMergeRequest ==
  /\ Running /\ pc = "push.createMR"
  /\ \E ok \in BOOLEAN :
       IF ok
       THEN /\ mr' = CreatedMR
            /\ End("done", <<Op("createMergeRequest", currentBranch)>>)
       ELSE /\ UNCHANGED mr
            /\ End("failed", <<OpFailed("createMergeRequest", currentBranch)>>)
  /\ UNCHANGED <<head, gitCheckRules, currentBranch, branchToUse, ticketNumber,
                 commitMessage, cancelRequested, changes,
                 retryCount, review, nextComment, inline>>

pushAndCreateMRCommand ==
  \/ PMEntry \/ PMIsGitRepository \/ PMGetCurrentBranch \/ PMGetRemoteUrl
  \/ PMPush \/ PMPushRetry \/ PMGetProject \/ PMListMergeRequests
  \/ PMGetBranches \/ PMSelectTarget
  \/ PMGetCommitsBetween \/ PMGetDiffWithBranch \/ PMGenerateMRDescription
  \/ PMAskTitle \/ PMConfirmDescription \/ PMCreateMergeRequest

\* the user starts one of the four commands
CommandEntries == {"entry", "branch.entry", "commit.entry", "push.entry"}

\* a command has returned and the user starts the next one in the same
\* working copy: the branch checked out is what the commands before left
StartCommand ==
  /\ ~Running
  /\ pc' \in CommandEntries
  /\ outcome' = "running"
  /\ gitCheckRules' = NoRules
  /\ currentBranch' = None
  /\ branchToUse' = None
  /\ ticketNumber' = None
  /\ commitMessage' = <<>>
  /\ cancelRequested' = FALSE
  /\ mr' = NoMR
  /\ changes' = <<>>
  /\ retryCount' = 0
  /\ review' = NoReview
  /\ nextComment' = 1
  /\ log' = <<>>
  /\ inline' = <<>>
  /\ targetBranch' = None
  /\ UNCHANGED <<head, config>>
  /\ UNCHANGED <<extractorVars, normalizerVars, selectorVars, raceVars>>

CommandsInit ==
  /\ ExtractorIdle
  /\ NormalizerIdle
  /\ LaterIdle
  /\ pc \in CommandEntries
  /\ outcome = "running"
  /\ head \in StartBranches
  /\ gitCheckRules = NoRules
  /\ currentBranch = None
  /\ branchToUse = None
  /\ ticketNumber = None
  /\ commitMessage = <<>>
  /\ cancelRequested = FALSE
  /\ mr = NoMR
  /\ changes = <<>>
  /\ retryCount = 0
  /\ review = NoReview
  /\ nextComment = 1
  /\ log = <<>>
  /\ inline = <<>>

CommandsNext ==
  \/ Next \/ createBranchCommand \/ commitChangesCommand
  \/ pushAndCreateMRCommand \/ StartCommand

CommandsSpec == CommandsInit /\ [][CommandsNext]_vars

(***************************************************************************)
(* C20, as claimed: whatever command runs, every createBranch call is made *)
(* with a name that passed validateBranchName under the rule set of the    *)
(* run: a name that is not protected and matches the branch regex when     *)
(* there is one.                                                           *)
(***************************************************************************)
C20_CreatedBranchesValidated ==
  \A i \in Issued("createBranch") :
    validateBranchName(log[i].arg, gitCheckRules)

(***************************************************************************)
(* C23: in the commands that create a merge request, a target branch       *)
(* decided with low confidence (the selector's answer of confidence 'low', *)
(* or in the full workflow the pick of getMRTargetBranch's last resorts,   *)
(* which is the case the selector's fallback rates 'low') reaches          *)
(* createMergeRequest only after the user confirmed a target branch; a     *)
(* dismissed confirmation leaves the run without a merge request.          *)
(***************************************************************************)
LowConfidenceDecisions ==
  {j \in DOMAIN log :
     \/ log[j].op = "selectTargetBranch" /\ log[j].arg = "low"
     \/ log[j].op = "getMRTargetBranch" /\ log[j].ok /\ log[j].arg # "priority"}

C23_LowConfidenceConfirmed ==
  \A i \in Issued("createMergeRequest") :
    \A j \in LowConfidenceDecisions :
      j < i => \E k \in Issued("confirmTargetBranch") : j < k /\ k < i

\* the same for pushAndCreateMRCommand alone, where the gate of lines 135-150
\* stands
C23_PushCommandConfirms ==
  \A i \in Issued("createMergeRequest") :
    \A j \in Issued("selectTargetBranch") :
      (log[j].arg = "low" /\ j < i) => log[j + 1].op = "confirmTargetBranch"

(***************************************************************************)
(* C24: when the review answer of the LLM is no JSON text, the review is   *)
(* {summary: the answer as it came, comments: [], score: 70}, and the run  *)
(* does not fail because of it: it posts the summary note (the run fails   *)
(* only when that call itself throws) and no inline comment, and ends as   *)
(* done unless it is cancelled.                                            *)
(***************************************************************************)
UnparsedReviews ==
  {i \in Issued("reviewCode") : log[i].ok /\ log[i].arg \in UnparsableTexts}

C24_UnparsableReviewDegrades ==
  \A i \in UnparsedReviews :
    /\ review.summary = log[i].arg
    /\ review.comments = <<>>
    /\ review.score = 70
    /\ Issued("createMRDiscussion") = {}
    /\ inline = <<>>
    /\ outcome \in {"running", "completed", "cancelled", "failed"}
    /\ outcome = "failed" =>
         /\ log[Len(log)].op = "createMRNote"
         /\ ~log[Len(log)].ok
    /\ outcome = "completed" => NotePosted

C24_Witness ==
  /\ UnparsedReviews # {}
  /\ outcome = "completed"
  /\ NotePosted
  /\ review.summary = "I cannot review this diff."

(***************************************************************************)
(* C25: whatever the review answer of the LLM, parsed values of another    *)
(* shape included, reviewCode returns a review with a summary, a list of   *)
(* comments and a numeric score, and the posting stage does not fail on    *)
(* the structure of the review: a run that fails after the review fails in *)
(* a call that threw.                                                      *)
(***************************************************************************)
C25_ReviewValidated ==
  \A i \in Issued("reviewCode") :
    log[i].ok =>
      /\ review.isObject
      /\ outcome = "failed" => ~log[Len(log)].ok

(***************************************************************************)
(* The entry of the four commands under every configuration: the prompts   *)
(* for the missing settings, then the first call of the command            *)
(* (isGitRepository).  The user may start a command again after one has    *)
(* returned; the settings persist.                                         *)
(***************************************************************************)
ConfigInit ==
  /\ ExtractorIdle
  /\ NormalizerIdle
  /\ SelectorIdle
  /\ targetBranch = None
  /\ config \in Configs
  /\ RaceIdle
  /\ pc \in CommandEntries
  /\ outcome = "running"
  /\ head \in StartBranches
  /\ gitCheckRules = NoRules
  /\ currentBranch = None
  /\ branchToUse = None
  /\ ticketNumber = None
  /\ commitMessage = <<>>
  /\ cancelRequested = FALSE
  /\ mr = NoMR
  /\ changes = <<>>
  /\ retryCount = 0
  /\ review = NoReview
  /\ nextComment = 1
  /\ log = <<>>
  /\ inline = <<>>

ConfigNext ==
  \/ Entry \/ CBEntry \/ CCEntry \/ PMEntry
  \/ IsGitRepository \/ CBIsGitRepository \/ CCIsGitRepository
  \/ PMIsGitRepository
  \/ StartCommand

ConfigSpec == ConfigInit /\ [][ConfigNext]_vars

(***************************************************************************)
(* C26: while the settings are missing or invalid (no GitLab URL or one    *)
(* that is no URL, no GitLab token, no LLM key for a provider other than   *)
(* ollama, no API URL for the custom or the ollama provider), also after   *)
(* the prompts, the command has issued no operation and stands at its      *)
(* entry.                                                                  *)
(***************************************************************************)
C26_ConfigErrorsBlockEntry ==
  ~validateConfig(config).valid =>
    /\ log = <<>>
    /\ pc \in CommandEntries
    /\ outcome \in {"running", "blocked"}

\* the prompts filled in the GitLab URL and the token of ollama settings, the
\* box for the API URL was dismissed, and the command returned
C26_Witness ==
  /\ outcome = "blocked"
  /\ config.llmProvider = "ollama"
  /\ validateConfig(config).errors =
       {"Ollama API URL is required (e.g., http://localhost:11434)"}
  /\ log = <<>>

(***************************************************************************)
(* C27: whatever commands ran before, a step that issues a commit or a     *)
(* push is taken while the checked-out branch is none of main, master,     *)
(* dev, develop, development in any case; so a branch that a command       *)
(* created and a later step commits to is no protected branch.             *)
(***************************************************************************)
ProtectedInAnyCase(b) ==
  \E p \in Range(PROTECTED_BRANCHES) : toLowerCase(b) = p

IssuesCommitOrPush ==
  \E i \in DOMAIN log' :
    /\ i > Len(log)
    /\ log'[i].op \in {"commit", "push"}

C27_NeverOnProtected ==
  [][IssuesCommitOrPush => ~ProtectedInAnyCase(head) /\ head' = head]_vars

\* commitChangesCommand has committed on a branch that an earlier command
\* created
C27_Witness ==
  /\ pc = "commit.commit"
  /\ outcome = "done"
  /\ head \notin StartBranches
  /\ \E i \in Issued("commit") : log[i].ok /\ log[i].arg = head

(***************************************************************************)
(* C28: a ticket number that a command hands to the generation of a branch *)
(* name or of a commit message has the format [A-Z]+-[0-9]+ (a validated   *)
(* input in upper case, or TASK-001).                                      *)
(***************************************************************************)
\* /^[A-Z]+-[0-9]+$/ on the ticket numbers of the model
TicketFormat(s) == s \in {"ABC-12", "TASK-001"}

GenerationCalls ==
  Issued("generateBranchName") \cup Issued("generateCommitMessage")

C28_TicketsWellFormed ==
  (GenerationCalls # {} /\ ticketNumber # None) => TicketFormat(ticketNumber)

(***************************************************************************)
(* C29: in the full workflow a call that failed, other than the first push *)
(* attempt and the post of one inline comment, is the last operation of    *)
(* the run and the run has failed: nothing of a later stage follows it and *)
(* the call is not made again.                                             *)
(***************************************************************************)
FailedCalls == {i \in DOMAIN log : ~log[i].ok}

ToleratedFailure(i) ==
  \/ log[i].op = "push" /\ log[i].arg = "--set-upstream"
  \/ log[i].op = "createMRDiscussion"

C29_FailureHalts ==
  \A i \in FailedCalls :
    ~ToleratedFailure(i) => (i = Len(log) /\ outcome = "failed")

\* the review call of the LLM failed after the merge request was created
C29_Witness ==
  /\ outcome = "failed"
  /\ Len(log) > 0
  /\ log[Len(log)].op = "reviewCode"
  /\ ~log[Len(log)].ok
  /\ \E i \in Issued("createMergeRequest") : log[i].ok

(***************************************************************************)
(* Several runs of the full workflow on the same repository and source     *)
(* branch, from the query of the open merge requests to createMergeRequest *)
(* (fullWorkflow.ts lines 178-238).  Each run has its own locals; what the *)
(* runs share is the list of open merge requests that GitLab keeps for the *)
(* source branch.                                                          *)
(***************************************************************************)
Runs == 1..MaxRuns

\* the awaited steps of lines 194-224 in their order
MRStages ==
  <<"listMR", "targetBranch", "commitsBetween", "branchDiff", "describeMR",
    "title", "createMR", "changes">>

StageAfter(stage) ==
  MRStages[(CHOOSE i \in DOMAIN MRStages : MRStages[i] = stage) + 1]

RunAt(r, stage) == runs[r].pc = stage /\ runs[r].outcome = "running"

\* line 186 when the run looks at the merge requests open at the time it
\* creates its own
MayCreate_Recheck(r) == runs[r].observed = "none" /\ ~HasOpenMR(openMRs)

\* line 186: the else branch is taken on what listMergeRequests returned to
\* this run at line 179
MayCreate(r) == runs[r].observed = "none"

\* lines 179-189
RunListMergeRequests(r) ==
  /\ RunAt(r, "listMR")
  /\ \/ runs' = [runs EXCEPT ![r].outcome = "failed"]
     \/ runs' = [runs EXCEPT
                   ![r].observed = IF HasOpenMR(openMRs) THEN "existing"
                                   ELSE "none",
                   ![r].pc = IF HasOpenMR(openMRs) THEN "changes"
                             ELSE "targetBranch"]
  /\ UNCHANGED openMRs
  /\ UNCHANGED <<commandVars, extractorVars, normalizerVars, selectorVars,
                 targetBranch, config>>

\* lines 194-213: the four awaited calls before the title
RunPrepare(r) ==
  /\ \E stage \in {"targetBranch", "commitsBetween", "branchDiff", "describeMR"} :
       /\ RunAt(r, stage)
       /\ \/ runs' = [runs EXCEPT ![r].outcome = "failed"]
          \/ runs' = [runs EXCEPT ![r].pc = StageAfter(stage)]
  /\ UNCHANGED openMRs
  /\ UNCHANGED <<commandVars, extractorVars, normalizerVars, selectorVars,
                 targetBranch, config>>

\* lines 217-224
RunAskTitle(r) ==
  /\ RunAt(r, "title")
  /\ \/ runs' = [runs EXCEPT ![r].outcome = "declined"]
     \/ runs' = [runs EXCEPT ![r].pc = "createMR"]
  /\ UNCHANGED openMRs
  /\ UNCHANGED <<commandVars, extractorVars, normalizerVars, selectorVars,
                 targetBranch, config>>

\* lines 228-238: GitLab answers with the new merge request or with an error
RunCreateMergeRequest(r) ==
  /\ RunAt(r, "createMR")
  /\ MayCreate(r)
  /\ \/ /\ runs' = [runs EXCEPT ![r].issued = TRUE, ![r].pc = "changes"]
        /\ openMRs' = Append(openMRs, [iid |-> 9 + Len(openMRs),
                                       diff_refs |-> TRUE, created |-> TRUE])
     \/ /\ runs' = [runs EXCEPT ![r].issued = TRUE, ![r].outcome = "failed"]
        /\ UNCHANGED openMRs
  /\ UNCHANGED <<commandVars, extractorVars, normalizerVars, selectorVars,
                 targetBranch, config>>

TwoRunsInit ==
  /\ NoCommand
  /\ ExtractorIdle
  /\ NormalizerIdle
  /\ SelectorIdle
  /\ targetBranch = None
  /\ config = UnsetConfig
  /\ runs = [r \in Runs |-> [pc |-> "listMR", outcome |-> "running",
                             observed |-> "unknown", issued |-> FALSE]]
  /\ openMRs \in {<<>>, <<[iid |-> 8, diff_refs |-> TRUE, created |-> FALSE]>>}

TwoRunsNext ==
  \E r \in Runs :
    \/ RunListMergeRequests(r)
    \/ RunPrepare(r)
    \/ RunAskTitle(r)
    \/ RunCreateMergeRequest(r)

TwoRunsSpec == TwoRunsInit /\ [][TwoRunsNext]_vars

(***************************************************************************)
(* C30: runs of the full workflow for the same source branch are not       *)
(* coordinated: a run that saw no open merge request and stands before     *)
(* createMergeRequest can issue it whatever the other runs have done since *)
(* (a run issues it exactly on its own observation), so that there are     *)
(* interleavings in which two runs both see none and both issue            *)
(* createMergeRequest.                                                     *)
(***************************************************************************)
C30_RunsNotCoordinated ==
  \A r \in Runs :
    /\ runs[r].issued => runs[r].observed = "none"
    /\ RunAt(r, "createMR") =>
         /\ runs[r].observed = "none"
         /\ ENABLED RunCreateMergeRequest(r)

\* both runs listed the open merge requests, saw none, and issued
\* createMergeRequest
C30_Witness ==
  /\ \A r \in {1, 2} : runs[r].observed = "none" /\ runs[r].issued
  /\ Len(openMRs) >= 1

(***************************************************************************)
(* C31: the extractor takes each pattern from the first strategy that      *)
(* finds one.  Branch pattern: the quoted value of a pattern/regex key     *)
(* when the text has one, else the pattern of a shell =~ comparison, else  *)
(* nothing or the conventional default.  Commit pattern: the argument of   *)
(* grep -E when the text has one, else the quoted value of a pattern key,  *)
(* else the pattern of a shell comparison, else nothing or the             *)
(* conventional-commits default.  The place of the lines in the text does  *)
(* not matter, and the regex is that of the pattern taken or absent.       *)
(***************************************************************************)
StageParsed == Parsed /\ Holds({MarkerLine, MarkerLine2})

BranchPatternByOrder ==
  LET rules == parseResult.rules
  IN IF Holds({BranchKeyLine, BadBranchKeyLine})
     THEN rules.branchNamePattern
            \in {BranchTicketPattern, UnterminatedBranchPattern}
     ELSE IF Holds({BranchScriptLine})
     THEN rules.branchNamePattern = BranchScriptPattern
     ELSE rules.branchNamePattern \in {None, ConventionalBranchPattern}

CommitPatternByOrder ==
  LET rules == parseResult.rules
  IN IF Holds({GrepLine, BadGrepLine})
     THEN rules.commitMessagePattern
            \in {CommitTicketPattern, UnterminatedCommitPattern}
     ELSE IF Holds({CommitKeyLine})
     THEN rules.commitMessagePattern = CommitKeyPattern
     ELSE IF Holds({CommitScriptLine})
     THEN rules.commitMessagePattern = CommitScriptPattern
     ELSE rules.commitMessagePattern =
            IF Holds({ConventionalCommitLine}) THEN ConventionalCommitPattern
            ELSE None

RegexOfPattern(pattern, regex) ==
  regex # None =>
    /\ pattern # None
    /\ regex \in {NewRegExp(pattern, ""), NewRegExp(pattern, "i")}

C31_FirstMatchWins ==
  StageParsed =>
    /\ BranchPatternByOrder
    /\ CommitPatternByOrder
    /\ RegexOfPattern(parseResult.rules.branchNamePattern,
                      parseResult.rules.branchNameRegex)
    /\ RegexOfPattern(parseResult.rules.commitMessagePattern,
                      parseResult.rules.commitMessageRegex)

\* the pattern key stands before the grep line in the text, and the grep
\* argument is the pattern taken
C31_Witness ==
  /\ StageParsed
  /\ ciFile.content = <<MarkerLine, CommitKeyLine, GrepLine>>
  /\ parseResult.rules.commitMessagePattern = CommitTicketPattern

(***************************************************************************)
(* C32: for a ticket and a one-line answer type(scope): description whose  *)
(* scope is ticket-shaped (letters, hyphen, digits) and not in upper case, *)
(* the commit message returned keeps that scope, in upper case:            *)
(* type(SCOPE): description.                                               *)
(***************************************************************************)
LowerTicketScope(a) ==
  /\ Len(a.scope) >= 2
  /\ IsTicket(SubSeq(a.scope, 2, Len(a.scope) - 1))
  /\ a.scope # upper(a.scope)

C32_TicketScopeKept ==
  (/\ normPc = "returned" /\ PlainMessage(answer)
   /\ answer.ticket # <<>> /\ LowerTicketScope(answer)) =>
    normalized = lower(answer.type) \o upper(answer.scope)
                   \o <<":", " ">> \o answer.description

(***************************************************************************)
(* The ticket on its way from the rules to the commit Normalizer: the      *)
(* ticket prompt of fullWorkflow.ts lines 60-80 (the commit command has    *)
(* the same test at part_004 line 367), then the call of line 123 with     *)
(* the ticketNumber the prompt left.                                       *)
(***************************************************************************)
\* line 62: gitCheckRules.requiresTicketNumber ||
\* gitCheckRules.commitRequiresTicketNumber
needsTicket(rules) ==
  rules.requiresTicketNumber \/ rules.commitRequiresTicketNumber

\* the characters of a ticket number; undefined is passed as no ticket
TicketChars(ticket) ==
  CASE ticket = "ABC-12" -> <<"A", "B", "C", "-", "1", "2">>
    [] ticket = "TASK-001" -> <<"T", "A", "S", "K", "-", "0", "0", "1">>
    [] OTHER -> <<>>

\* rule sets: none; a ticket in the branch rule alone, without and with a
\* commit rule; a ticket in the commit rule alone; a ticket in both
TicketCIFiles ==
  {NoCIFile,
   CIFile(<<MarkerLine, BranchKeyLine>>),
   CIFile(<<MarkerLine, BranchKeyLine, CommitKeyLine>>),
   CIFile(<<MarkerLine, GrepLine>>),
   CIFile(<<MarkerLine, BranchKeyLine, GrepLine>>)}

\* the model's answers that are the message alone, no lead-in and no fence
BareCommitAnswers ==
  {a \in CommitAnswers :
     a.ticket = <<>> /\ a.leadIn = <<>> /\ a.wrapper.open = <<>>}

CommitTicketInit ==
  /\ ExtractorIdle
  /\ LaterIdle
  /\ pc = "wire.ticket"
  /\ outcome = "running"
  /\ head = "feature/login"
  /\ gitCheckRules \in {parseGitCheckRules(file) : file \in TicketCIFiles}
  /\ currentBranch = None
  /\ branchToUse = None
  /\ ticketNumber = None
  /\ commitMessage = <<>>
  /\ cancelRequested = FALSE
  /\ mr = NoMR
  /\ changes = <<>>
  /\ retryCount = 0
  /\ review = NoReview
  /\ nextComment = 1
  /\ log = <<>>
  /\ inline = <<>>
  /\ answer \in BareCommitAnswers
  /\ normPc = "call"
  /\ normalized = <<>>
  /\ renormalized = <<>>

\* lines 60-80
WiredAskTicket ==
  /\ pc = "wire.ticket"
  /\ IF needsTicket(gitCheckRules)
     THEN \E input \in TicketInputs :
            ticketNumber' =
              toUpperCase(IF input = None THEN "TASK-001" ELSE input)
     ELSE UNCHANGED ticketNumber
  /\ pc' = "wire.generate"
  /\ UNCHANGED <<outcome, head, gitCheckRules, currentBranch, branchToUse,
                 commitMessage, cancelRequested, mr, changes, retryCount,
                 review, nextComment, log, inline>>
  /\ UNCHANGED <<extractorVars, normalizerVars, laterVars>>

\* lines 121-123
WiredGenerateCommitMessage ==
  /\ pc = "wire.generate"
  /\ normalized' =
       generateCommitMessageWithRules(answer.content, TicketChars(ticketNumber))
  /\ normPc' = "returned"
  /\ pc' = "wire.done"
  /\ UNCHANGED <<outcome, head, gitCheckRules, currentBranch, branchToUse,
                 ticketNumber, commitMessage, cancelRequested, mr, changes,
                 retryCount, review, nextComment, log, inline>>
  /\ UNCHANGED <<answer, renormalized>>
  /\ UNCHANGED <<extractorVars, laterVars>>

CommitTicketNext == WiredAskTicket \/ WiredGenerateCommitMessage

CommitTicketSpec == CommitTicketInit /\ [][CommitTicketNext]_vars

(***************************************************************************)
(* C33: when the commit rule requires no ticket (it is absent, or its      *)
(* pattern has none), also when the branch rule requires one, the commit   *)
(* message comes back with the scope it was generated with: a one-line     *)
(* answer type(scope): description is returned as it is.                   *)
(***************************************************************************)
C33_ScopeLeftAsGenerated ==
  (/\ pc = "wire.done" /\ PlainMessage(answer)
   /\ ~gitCheckRules.commitRequiresTicketNumber) =>
    normalized = answer.payload

\* the same when no rule requires a ticket
NoTicketNoRewrite ==
  (/\ pc = "wire.done" /\ PlainMessage(answer)
   /\ ~needsTicket(gitCheckRules)) =>
    normalized = answer.payload

(***************************************************************************)
(* C34: the commit is issued only right after the user chose Continue in   *)
(* the confirmation; when the user chose Cancel or dismissed the message,  *)
(* the run ends there: no commit, no push and no merge-request operation   *)
(* was or is issued, and the staging stays as the last change made (there  *)
(* is no operation after the confirmation, so none that unstages).         *)
(***************************************************************************)
MergeRequestOps ==
  {"listMergeRequests", "generateMRDescription", "createMergeRequest",
   "getMergeRequestChanges", "reviewCode", "createMRNote",
   "createMRDiscussion"}

C34_CommitOnlyConfirmed ==
  /\ \A i \in Issued("commit") :
       /\ i > 1
       /\ log[i - 1] = Op("confirmCommit", "Continue")
  /\ \A j \in Issued("confirmCommit") :
       log[j].arg # "Continue" =>
         /\ j = Len(log)
         /\ outcome = "declined"
         /\ \A i \in DOMAIN log :
              log[i].op \notin {"commit", "push"} \cup MergeRequestOps
         /\ \E i \in Issued("stageAll") : log[i].ok

\* the user dismissed the confirmation of a staged change
C34_Witness ==
  /\ outcome = "declined"
  /\ log[Len(log)] = Op("confirmCommit", "dismissed")
  /\ \E i \in Issued("stageAll") : log[i].ok

\* the user chose Continue and the commit was made
C34_WitnessConfirmed ==
  \E i \in Issued("commit") : log[i].ok

(***************************************************************************)
(* C35: the confidence of every decision selectTargetBranch returns is one *)
(* of high, medium, low, also when the answer's confidence field is        *)
(* missing or holds another value.                                         *)
(***************************************************************************)
Confidences == {"high", "medium", "low"}

C35_ConfidenceInRange ==
  selectorPc = "selected" => selectorResult.confidence \in Confidences

\* the same for the answers without a confidence field, and for the decisions
\* of the fallback
MissingConfidenceIsMedium ==
  /\ (/\ selectorPc = "selected"
      /\ selectorResult.reasoning = "model"
      /\ selectorArgs.response.body.confidence = None) =>
       selectorResult.confidence = "medium"
  /\ (selectorPc \in {"selected", "fellBack"}
        /\ selectorResult.reasoning # "model") =>
       selectorResult.confidence \in Confidences

(***************************************************************************)
(* The run under the assumption that every call and every prompt returns:  *)
(* the step the run waits for is eventually taken.  Nothing is assumed of  *)
(* the Cancel button, which the user may never press.                      *)
(***************************************************************************)
Steps ==
  \/ Entry \/ IsGitRepository \/ ParseGitCheckRules \/ GetStatus
  \/ GetCurrentBranch \/ AskTicket
  \/ GetAllDiff \/ GenerateBranchName \/ CreateBranch
  \/ StageAll \/ GetStagedDiff \/ GenerateCommitMessage \/ ConfirmCommit
  \/ Commit \/ Push \/ PushRetry
  \/ GetRemoteUrl \/ GetProject
  \/ ListMergeRequests \/ GetMRTargetBranch \/ GetCommitsBetween
  \/ GetDiffWithBranch \/ GenerateMRDescription \/ AskTitle
  \/ CreateMergeRequest
  \/ GetMergeRequestChanges \/ PollChanges
  \/ LoadBusinessContext \/ ReviewCode
  \/ CreateMRNote \/ InlineComment \/ Finish

FairSpec == Init /\ [][Next]_vars /\ WF_vars(Steps)

\* the ways the callback returns, by the terminal state they stand for:
\* Done (the success message, or an early return with nothing left to do:
\* no changes to commit, no changes in the merge request), Cancelled (the
\* token, or a dialog the user declined), Failed (an error was caught or
\* reported: a thrown call, a missing setting, an invalid generated name or
\* message)
DoneOutcomes == {"completed", "nochanges", "warning"}
CancelledOutcomes == {"cancelled", "declined"}
FailedOutcomes == {"failed", "blocked", "invalid"}
TerminalOutcomes == DoneOutcomes \cup CancelledOutcomes \cup FailedOutcomes

(***************************************************************************)
(* C36: when every call and every prompt returns, the run eventually       *)
(* reaches a terminal outcome, also when every read of the merge request's *)
(* changes returns no changed file.                                        *)
(***************************************************************************)
C36_Terminates == <>(outcome \in TerminalOutcomes)

\* the polling gave up: the last of the 6 reads returned no changed file and
\* the run ended with the warning
C36_Witness ==
  /\ outcome = "warning"
  /\ retryCount = maxRetries
  /\ Count("getMergeRequestChanges") = maxRetries + 1
  /\ \A i \in Issued("getMergeRequestChanges") : log[i].arg = "empty"

\* the outcomes of the workflow are the listed ones
OutcomesListed == outcome \in {"running"} \cup TerminalOutcomes

(***************************************************************************)
(* C37: the createMRDiscussion calls of a run, failed ones included, are   *)
(* made for the postable ones among the first 5 error/warning comments of  *)
(* the review and for no other comment, in the order of the review; once   *)
(* the loop is through, each of those has been attempted exactly once.  A  *)
(* comment is postable when it names a file and a line other than 0, the   *)
(* merge request has diff refs, and a changed file has the comment's file  *)
(* as its new or old path.                                                 *)
(***************************************************************************)
\* the positions in review.comments of the error and warning comments
SeverePositions ==
  {p \in DOMAIN review.comments :
     review.comments[p].severity \in {"error", "warning"}}

\* the rank of position p among them
SevereRank(p) == Cardinality({q \in SeverePositions : q <= p})

PostablePositions ==
  {p \in SeverePositions :
     /\ SevereRank(p) <= 5
     /\ review.comments[p].file # ""
     /\ review.comments[p].line # 0
     /\ mr.diff_refs
     /\ \E c \in DOMAIN changes :
          \/ changes[c].new_path = review.comments[p].file
          \/ changes[c].old_path = review.comments[p].file}

\* the ranks of the comments a call was made for so far
AttemptedRanks ==
  {inline[k].index : k \in {l \in DOMAIN inline : inline[l].result # "skipped"}}

C37_PostableOfFirstFive ==
  review.isObject =>
    /\ AttemptedRanks \subseteq {SevereRank(p) : p \in PostablePositions}
    /\ Count("createMRDiscussion")
         = Cardinality({k \in DOMAIN inline : inline[k].result # "skipped"})
    /\ \A k, l \in DOMAIN inline : k < l => inline[k].index < inline[l].index
    /\ \A i \in Issued("createMRDiscussion") :
         \E p \in PostablePositions : log[i].arg = review.comments[p].file
    /\ (pc = "finish" \/ outcome = "completed") =>
         AttemptedRanks = {SevereRank(p) : p \in PostablePositions}

\* a completed run whose review had a sixth error comment, postable like the
\* ones attempted, while only some of the first 5 were postable
C37_Witness ==
  /\ outcome = "completed"
  /\ Cardinality(SeverePositions) > 5
  /\ Cardinality(PostablePositions) \in 1..4
  /\ \E p \in SeverePositions :
       /\ SevereRank(p) = 6
       /\ \E q \in PostablePositions : review.comments[q] = review.comments[p]

(***************************************************************************)
(* C38: one run calls createBranch at most once, commit at most once,      *)
(* createMergeRequest at most once and createMRNote at most once, failed   *)
(* calls counted, whatever the push and the polling of the changes had to  *)
(* repeat.                                                                 *)
(***************************************************************************)
IrreversibleSteps ==
  {"createBranch", "commit", "createMergeRequest", "createMRNote"}

C38_AtMostOnce == \A name \in IrreversibleSteps : Count(name) <= 1

\* a completed run that did each of the four once, pushed twice and read the
\* changes more than once
C38_Witness ==
  /\ outcome = "completed"
  /\ \A name \in IrreversibleSteps : Count(name) = 1
  /\ Count("push") = 2
  /\ Count("getMergeRequestChanges") > 2

====
